---- MODULE Spec2Model ----
(***************************************************************************)
(* KrushiMitra backend: the per-user context store (user-context.js, two   *)
(* copies in the repository), the /weather cache of server.js and the      *)
(* e-mail OTP endpoints of server.js, as state machines.                   *)
(*                                                                         *)
(* JavaScript values are records tagged with their type, objects are       *)
(* functions from key names to values, Date values are integers (a clock   *)
(* reading).                                                               *)
(***************************************************************************)
EXTENDS Integers, Sequences, FiniteSets, Bags, TLC

VARIABLES
    copy,             \* which user-context.js is loaded: "A" (part_001:791-1073) or "B" (part_001:1075-1281)
    rejectsConflict,  \* whether the MongoDB server rejects an update naming one path under two operators
    collection,       \* the user_context collection: userId -> document or NoDoc
    now,              \* the clock read by new Date() / Date.now()
    sent,             \* per user: number of non-empty messages handed to completed appendChatMessage calls
    last,             \* the last completed call of the user-context module
    apiKey,           \* whether process.env.TOMORROW_API_KEY is set
    weatherCache,     \* the weatherCache Map: cache key -> entry or NoEntry
    inflight,         \* the GET /weather handlers suspended at their upstream call (a bag)
    fetched,          \* per cache key: the last request the provider answered 2xx, or NoEntry
    wlast,            \* the last step of a GET /weather handler
    sendgrid,         \* which of SENDGRID_API_KEY and SENDGRID_FROM are set
    otpStore,         \* the otpStore Map: email -> record or NoOtp
    usersCollection,  \* the users collection: email -> user or NoUser
    mails,            \* the send-otp handlers suspended at sgMail.send (a bag)
    verifying,        \* the verify-otp handlers suspended at the users collection (a bag)
    charged,          \* per email: the INVALID_OTP answers given against the stored record
    matched,          \* per email: the verify-otp calls that matched the code last issued
    olast,            \* the last step of a send-otp or verify-otp handler
    calls,            \* per caller: its user-context call in progress, between two storage operations
    prior             \* the user_context collection as the callers found it

vars == <<copy, rejectsConflict, collection, now, sent, last,
          apiKey, weatherCache, inflight, fetched, wlast,
          sendgrid, otpStore, usersCollection, mails, verifying, charged, matched, olast,
          calls, prior>>

callVars == <<calls, prior>>

weatherVars == <<apiKey, weatherCache, inflight, fetched, wlast>>

otpVars == <<sendgrid, otpStore, usersCollection, mails, verifying, charged, matched, olast>>

ctxVars == <<copy, rejectsConflict, collection, sent, last>>

-----------------------------------------------------------------------------
(* Bounds of the model *)

\* largest clock reading of the context-store specifications
MaxClock == 1

\* largest number of entries in one appendChatMessage batch
MaxBatch == 6

\* largest number of non-empty messages supplied to one user
MaxSent == 7

\* largest number of non-empty messages supplied to one user under profile traffic
MaxContextSent == 2

\* the clock readings (minutes) at which the weather specification lets something happen:
\* both sides of the age WEATHER_CACHE_TTL for an entry written at 0 or at 1
ClockReadings == {0, 1, 9, 10}

\* largest number of GET /weather handlers suspended at the upstream call at once
MaxInFlight == 2

\* the clock readings (minutes) at which the OTP specification lets something happen:
\* expiresAt of a code issued at 0, and the minute after
OtpClockReadings == {0, 10, 11}

\* largest number of send-otp handlers suspended at the mail dispatch at once
MaxMails == 1

\* largest number of verify-otp handlers suspended at the users collection at once
MaxVerifying == 1

-----------------------------------------------------------------------------
(* JavaScript values *)

NULL == [t |-> "null"]

UNDEF == [t |-> "undefined"]

Str(s) == [t |-> "string", s |-> s]

Num(n) == [t |-> "number", n |-> n]

\* a string as its sequence of characters (message texts, which the code trims)
Text(c) == [t |-> "text", c |-> c]

\* a Date object
DateV(ms) == [t |-> "date", ms |-> ms]

\* an object: o is a function from its own keys to values
Obj(o) == [t |-> "object", o |-> o]

\* an array
Arr(items) == [t |-> "array", items |-> items]

EmptyObject == [k \in {} |-> NULL]

\* ToBoolean
Truthy(v) ==
    CASE v.t = "string" -> v.s # ""
      [] v.t = "text" -> Len(v.c) > 0
      [] v.t = "number" -> v.n # 0
      [] v.t \in {"object", "array", "date"} -> TRUE
      [] OTHER -> FALSE

Nullish(v) == v.t \in {"null", "undefined"}

\* a || b
Or(a, b) == IF Truthy(a) THEN a ELSE b

\* a ?? b
Coalesce(a, b) == IF Nullish(a) THEN b ELSE a

\* o.k for an object o given as its key function
Get(o, k) == IF k \in DOMAIN o THEN o[k] ELSE UNDEF

\* x?.k for a value x
OptGet(x, k) == IF x.t = "object" THEN Get(x.o, k) ELSE UNDEF

\* { ...f, ...g }
Spread(f, g) == [k \in DOMAIN f \cup DOMAIN g |-> IF k \in DOMAIN g THEN g[k] ELSE f[k]]

\* a default parameter value: used when the argument is undefined
Default(arg, dflt) == IF arg.t = "undefined" THEN dflt ELSE arg

\* String.prototype.trim on a character sequence
RECURSIVE TrimLeft(_)
TrimLeft(c) == IF c # <<>> /\ Head(c) = " " THEN TrimLeft(Tail(c)) ELSE c

RECURSIVE TrimRight(_)
TrimRight(c) ==
    IF c # <<>> /\ c[Len(c)] = " " THEN TrimRight(SubSeq(c, 1, Len(c) - 1)) ELSE c

Trim(c) == TrimRight(TrimLeft(c))

-----------------------------------------------------------------------------
(* server.js: the OTP store and the users collection, their values *)

NoOtp == [t |-> "none"]

NoUser == [t |-> "none"]

\* an e-mail address as its sequence of characters
Farmer == <<"f", "@", "x">>

\* the addresses OTPs are stored for
Emails == {Farmer}

\* the callers whose user-context calls are followed one storage operation at a time
Procs == {1, 2}

\* a caller that has no call in progress
Idle == [pc |-> "idle"]

\* no call is followed step by step: each call runs as a whole
CallsIdle ==
    /\ calls = [p \in Procs |-> Idle]
    /\ prior = [u \in {"u1"} |-> [t |-> "none"]]

\* the OTP endpoints as they are while only other endpoints run
OtpIdle ==
    /\ sendgrid = [apiKey |-> TRUE, from |-> TRUE]
    /\ otpStore = [e \in Emails |-> NoOtp]
    /\ usersCollection = [e \in Emails |-> NoUser]
    /\ mails = EmptyBag
    /\ verifying = EmptyBag
    /\ charged = [e \in Emails |-> 0]
    /\ matched = [e \in Emails |-> 0]
    /\ olast = [flip |-> FALSE, event |-> "none"]

-----------------------------------------------------------------------------
(* user-context.js: identities and sanitizers *)

\* the strings ObjectId.isValid accepts
ValidIds == {"u1"}

NoDoc == [t |-> "none"]

\* normalizeObjectId: the ObjectId, or "" for null
normalizeObjectId(value) ==
    IF ~Truthy(value) THEN ""
    ELSE IF value.t = "string" /\ value.s \in ValidIds THEN value.s
    ELSE IF value.t = "object" /\ Truthy(Get(value.o, "_id"))
            /\ Get(value.o, "_id").t = "string" /\ Get(value.o, "_id").s \in ValidIds
         THEN Get(value.o, "_id").s
    ELSE ""

ProfileFields == {"name", "email", "phone", "language"}

NullProfile == [k \in ProfileFields |-> NULL]

\* sanitizeProfile(profile = {}, fallback = {}) on the key functions of the two objects
sanitizeProfile(profile, fallback) ==
    LET base == [k \in ProfileFields |-> Or(Get(fallback, k), NULL)]
    IN  Spread(base, profile)

\* profile && (profile.name || profile.email || profile.phone || profile.language)
hasProfileData(profile) ==
    /\ Truthy(profile)
    /\ \E k \in ProfileFields : Truthy(OptGet(profile, k))

\* mutant of sanitizeLocation: the all-empty check is missing
sanitizeLocationKeepsEmpty(location, t) ==
    LET arg == Default(location, Obj(EmptyObject))
    IN  IF ~Truthy(arg) \/ arg.t \notin {"object", "date"} THEN NULL
        ELSE LET o == IF arg.t = "object" THEN arg.o ELSE EmptyObject
             IN  [address   |-> Or(Get(o, "address"), NULL),
                  latitude  |-> IF Get(o, "lat").t = "number" THEN Get(o, "lat")
                                ELSE Coalesce(Get(o, "latitude"), NULL),
                  longitude |-> IF Get(o, "lon").t = "number" THEN Get(o, "lon")
                                ELSE Coalesce(Get(o, "longitude"), NULL),
                  precision |-> Or(Get(o, "precision"), NULL),
                  raw       |-> Or(Get(o, "raw"), NULL),
                  updatedAt |-> t]

\* sanitizeLocation(location = {}): NULL, or the snapshot stamped with the clock reading t
sanitizeLocation(location, t) ==
    LET arg == Default(location, Obj(EmptyObject))
    IN  IF ~Truthy(arg) \/ arg.t \notin {"object", "date"} THEN NULL
        ELSE LET o == IF arg.t = "object" THEN arg.o ELSE EmptyObject
                 sanitized ==
                     [address   |-> Or(Get(o, "address"), NULL),
                      latitude  |-> IF Get(o, "lat").t = "number" THEN Get(o, "lat")
                                    ELSE Coalesce(Get(o, "latitude"), NULL),
                      longitude |-> IF Get(o, "lon").t = "number" THEN Get(o, "lon")
                                    ELSE Coalesce(Get(o, "longitude"), NULL),
                      precision |-> Or(Get(o, "precision"), NULL),
                      raw       |-> Or(Get(o, "raw"), NULL),
                      updatedAt |-> t]
             IN  IF /\ sanitized.address = NULL
                    /\ sanitized.latitude = NULL
                    /\ sanitized.longitude = NULL
                    /\ sanitized.raw = NULL
                 THEN NULL
                 ELSE sanitized

\* sanitizeWeather(weather = {}): NULL, or the snapshot stamped with the clock reading t
sanitizeWeather(weather, t) ==
    LET arg == Default(weather, Obj(EmptyObject))
    IN  IF ~Truthy(arg) \/ arg.t \notin {"object", "date"} THEN NULL
        ELSE LET o == IF arg.t = "object" THEN arg.o ELSE EmptyObject
                 fields ==
                     [temperature |-> Coalesce(Coalesce(Get(o, "temperature"), Get(o, "temp")), NULL),
                      humidity    |-> Coalesce(Get(o, "humidity"), NULL),
                      condition   |-> Or(Or(Get(o, "condition"), Get(o, "summary")), NULL),
                      windSpeed   |-> Coalesce(Coalesce(Get(o, "windSpeed"), Get(o, "wind")), NULL),
                      precipitationProbability |->
                          Coalesce(Coalesce(Get(o, "precipitationProbability"),
                                            Get(o, "precipChance")), NULL),
                      source      |-> Or(Get(o, "source"), Str("app"))]
                 \* Object.values({ ...sanitized, updatedAt: undefined })
                 probed == Spread(fields, [updatedAt |-> UNDEF])
                 meaningful == \E k \in DOMAIN probed : ~Nullish(probed[k])
             IN  IF meaningful THEN Spread(fields, [updatedAt |-> t]) ELSE NULL

-----------------------------------------------------------------------------
(* The MongoDB operations the module issues, each atomic on one document *)

\* collection.findOne({ userId })
findOne(coll, id) == coll[id]

\* the document an upsert inserts: the filter's userId and the $setOnInsert fields
NewDoc(id, profile, t) ==
    [userId |-> id, profile |-> profile, location |-> NULL, weather |-> NULL,
     chats |-> <<>>, createdAt |-> t, updatedAt |-> t]

\* updateOne({ userId }, { $set: set }): no document, no change
updateOneSet(coll, id, set) ==
    IF coll[id] = NoDoc THEN coll ELSE [coll EXCEPT ![id] = Spread(@, set)]

\* mutant of upsertSetOnInsert: the fields are written into a matched document too
upsertSetOnInsertOverwrites(coll, id, doc) == [coll EXCEPT ![id] = doc]

\* updateOne({ userId }, { $setOnInsert: doc }, { upsert: true })
upsertSetOnInsert(coll, id, doc) ==
    IF coll[id] = NoDoc THEN [coll EXCEPT ![id] = doc] ELSE coll

\* updateOne({ userId }, { $setOnInsert: doc, $set: set }, { upsert: true }), when the
\* server applies both operators
upsertSetOnInsertAndSet(coll, id, doc, set) ==
    IF coll[id] = NoDoc THEN [coll EXCEPT ![id] = Spread(doc, set)]
    ELSE [coll EXCEPT ![id] = Spread(@, set)]

\* updateOne({ userId }, { $set: set }, { upsert: true })
upsertSet(coll, id, set) ==
    IF coll[id] = NoDoc THEN [coll EXCEPT ![id] = Spread([userId |-> id], set)]
    ELSE [coll EXCEPT ![id] = Spread(@, set)]

\* the -5 of $slice: the number of chat entries kept
ChatSlice == 5

\* mutant of SliceLast: the slice keeps one entry too many
SliceLastOneMore(arr, n) ==
    IF Len(arr) <= n + 1 THEN arr ELSE SubSeq(arr, Len(arr) - n, Len(arr))

\* mutant of SliceLast: $slice: n, which keeps the first n entries
SliceFirst(arr, n) == IF Len(arr) <= n THEN arr ELSE SubSeq(arr, 1, n)

\* $slice: -n applied to an array
SliceLast(arr, n) == IF Len(arr) <= n THEN arr ELSE SubSeq(arr, Len(arr) - n + 1, Len(arr))

\* mutant of updateOnePushSlice: the window is cut from the pushed entries alone and
\* stored in place of the array
updateOnePushSliceReplaces(coll, id, entries, set) ==
    IF coll[id] = NoDoc THEN coll
    ELSE [coll EXCEPT ![id] = Spread(Spread(@, [chats |-> SliceLast(entries, ChatSlice)]), set)]

\* updateOne({ userId }, { $push: { chats: { $each: entries, $slice: -5 } }, $set: set })
updateOnePushSlice(coll, id, entries, set) ==
    IF coll[id] = NoDoc THEN coll
    ELSE [coll EXCEPT ![id] =
              Spread(Spread(@, [chats |-> SliceLast(@.chats \o entries, ChatSlice)]), set)]

-----------------------------------------------------------------------------
(* Results of a call *)

ResNull == [kind |-> "null"]

ResId(id) == [kind |-> "id", id |-> id]

ResDoc(doc) == [kind |-> "doc", doc |-> doc]

\* the call threw (the returned promise is rejected)
ResError == [kind |-> "error"]

\* findOne(..., { projection: { chats: 1, userId: 1 } })
ProjectChats(doc) == IF doc = NoDoc THEN doc ELSE [userId |-> doc.userId, chats |-> doc.chats]

-----------------------------------------------------------------------------
(* user-context.js, copy A (part_001:791-1073) *)

\* mutant of ensureUserContextA: the insert fields are written with $set, found or not
ensureUserContextAResets(coll, userId, profile, t) ==
    LET id == normalizeObjectId(userId)
        p == Default(profile, Obj(EmptyObject))
    IN  IF id = "" THEN [coll |-> coll, res |-> ResNull]
        ELSE IF p.t # "object" THEN [coll |-> coll, res |-> ResError]
        ELSE [coll |-> [coll EXCEPT ![id] = NewDoc(id, sanitizeProfile(p.o, p.o), t)],
              res |-> ResId(id)]

\* ensureUserContext(userId, profile = {}) at clock reading t: find, then update or insert
ensureUserContextA(coll, userId, profile, t) ==
    LET id == normalizeObjectId(userId)
        p == Default(profile, Obj(EmptyObject))
    IN  IF id = "" THEN [coll |-> coll, res |-> ResNull]
        ELSE IF p.t # "object" THEN [coll |-> coll, res |-> ResError]
        ELSE LET sanitizedProfile == sanitizeProfile(p.o, p.o)
                 existing == findOne(coll, id)
             IN  IF existing # NoDoc
                 THEN [coll |-> updateOneSet(coll, id, [profile |-> sanitizedProfile,
                                                         updatedAt |-> t]),
                       res |-> ResId(id)]
                 ELSE [coll |-> upsertSetOnInsert(coll, id, NewDoc(id, sanitizedProfile, t)),
                       res |-> ResId(id)]

\* the $set of updateLocationAndWeather: updatedAt, and each snapshot the sanitizer kept
LocationWeatherSet(location, weather, t) ==
    LET sanitizedLocation == sanitizeLocation(location, t)
        sanitizedWeather == sanitizeWeather(weather, t)
        s0 == [updatedAt |-> t]
        s1 == IF sanitizedLocation # NULL THEN Spread(s0, [location |-> sanitizedLocation])
              ELSE s0
    IN  IF sanitizedWeather # NULL THEN Spread(s1, [weather |-> sanitizedWeather]) ELSE s1

\* updateLocationAndWeather(userId, { profile = {}, location, weather } = {})
updateLocationAndWeatherA(coll, userId, arg, t) ==
    LET id == normalizeObjectId(userId)
        o == Default(arg, Obj(EmptyObject)).o
        profile == Default(Get(o, "profile"), Obj(EmptyObject))
    IN  IF id = "" THEN [coll |-> coll, res |-> ResNull]
        ELSE LET c1 == IF hasProfileData(profile)
                       THEN ensureUserContextA(coll, userId, profile, t).coll
                       ELSE IF findOne(coll, id) = NoDoc
                            THEN upsertSetOnInsert(coll, id, NewDoc(id, NullProfile, t))
                            ELSE coll
                 c2 == updateOneSet(c1, id,
                           LocationWeatherSet(Get(o, "location"), Get(o, "weather"), t))
             IN  [coll |-> c2, res |-> ResDoc(findOne(c2, id))]

\* Array.isArray(chatEntry) ? chatEntry : [chatEntry]
AsArray(chatEntry) == IF chatEntry.t = "array" THEN chatEntry.items ELSE <<chatEntry>>

\* Array.isArray(chatEntry) ? chatEntry[0] : chatEntry
SampleEntry(chatEntry) ==
    IF chatEntry.t = "array"
    THEN (IF chatEntry.items = <<>> THEN UNDEF ELSE chatEntry.items[1])
    ELSE chatEntry

\* the .map callback of appendChatMessage: the entry as stored
MapEntry(entry, t) ==
    [role      |-> IF OptGet(entry, "role") = Str("assistant") THEN "assistant" ELSE "user",
     message   |-> IF Truthy(OptGet(entry, "message")) THEN OptGet(entry, "message").c
                   ELSE <<>>,
     metadata  |-> Or(OptGet(entry, "metadata"), Obj(EmptyObject)),
     timestamp |-> Or(OptGet(entry, "timestamp"), DateV(t))]

\* mutant of KeepEntry: the message is not trimmed before its length is tested
KeepEntryUntrimmed(e) == e.message # <<>>

\* the .filter callback: entry.message && entry.message.trim().length > 0
KeepEntry(e) == e.message # <<>> /\ Len(Trim(e.message)) > 0

RECURSIVE FilterKept(_)
FilterKept(es) ==
    IF es = <<>> THEN <<>>
    ELSE IF KeepEntry(Head(es)) THEN <<Head(es)>> \o FilterKept(Tail(es))
    ELSE FilterKept(Tail(es))

\* the entries appendChatMessage pushes for chatEntry
ChatEntries(chatEntry, t) ==
    LET arr == AsArray(chatEntry)
    IN  FilterKept([i \in 1..Len(arr) |-> MapEntry(arr[i], t)])

\* the tail of appendChatMessage, after the document was ensured: push, or only read
PushEntries(coll, id, entries, t) ==
    IF Len(entries) = 0
    THEN [coll |-> coll, res |-> ResDoc(ProjectChats(findOne(coll, id)))]
    ELSE LET c2 == updateOnePushSlice(coll, id, entries, [updatedAt |-> t])
         IN  [coll |-> c2, res |-> ResDoc(ProjectChats(findOne(c2, id)))]

\* appendChatMessage(userId, chatEntry = {})
appendChatMessageA(coll, userId, chatEntry, t) ==
    LET id == normalizeObjectId(userId)
        entry == Default(chatEntry, Obj(EmptyObject))
        profile == Or(OptGet(SampleEntry(entry), "profile"), Obj(EmptyObject))
    IN  IF id = "" THEN [coll |-> coll, res |-> ResNull]
        ELSE LET c1 == IF findOne(coll, id) # NoDoc THEN coll
                       ELSE upsertSetOnInsert(coll, id,
                                NewDoc(id,
                                       IF hasProfileData(profile)
                                       THEN sanitizeProfile(profile.o, profile.o)
                                       ELSE NullProfile,
                                       t))
             IN  PushEntries(c1, id, ChatEntries(entry, t), t)

\* fetchUserContext(userId)
fetchUserContext(coll, userId) ==
    LET id == normalizeObjectId(userId)
    IN  IF id = "" THEN ResNull
        ELSE IF findOne(coll, id) = NoDoc THEN ResNull ELSE ResDoc(findOne(coll, id))

-----------------------------------------------------------------------------
(* user-context.js, copy B (part_001:1075-1281) *)

\* ensureUserContext: one upsert naming profile under $setOnInsert and under $set. A
\* server that rejects conflicting update operators fails the call; one that applies
\* both inserts the $setOnInsert fields and then sets profile and updatedAt.
ensureUserContextB(coll, userId, profile, t) ==
    LET id == normalizeObjectId(userId)
        p == Default(profile, Obj(EmptyObject))
    IN  IF id = "" THEN [coll |-> coll, res |-> ResNull]
        ELSE IF p.t # "object" THEN [coll |-> coll, res |-> ResError]
        ELSE IF rejectsConflict THEN [coll |-> coll, res |-> ResError]
        ELSE LET sanitizedProfile == sanitizeProfile(p.o, p.o)
             IN  [coll |-> upsertSetOnInsertAndSet(coll, id,
                               [userId |-> id, profile |-> sanitizedProfile,
                                location |-> NULL, weather |-> NULL, chats |-> <<>>,
                                createdAt |-> t],
                               [profile |-> sanitizedProfile, updatedAt |-> t]),
                  res |-> ResId(id)]

\* updateLocationAndWeather: ensureUserContext with the profile given, then an upserting $set
updateLocationAndWeatherB(coll, userId, arg, t) ==
    LET o == Default(arg, Obj(EmptyObject)).o
        profile == Default(Get(o, "profile"), Obj(EmptyObject))
        ensured == ensureUserContextB(coll, userId, profile, t)
    IN  IF ensured.res.kind # "id" THEN ensured
        ELSE LET c2 == upsertSet(ensured.coll, ensured.res.id,
                           LocationWeatherSet(Get(o, "location"), Get(o, "weather"), t))
             IN  [coll |-> c2, res |-> ResDoc(findOne(c2, ensured.res.id))]

\* appendChatMessage: ensureUserContext with the first entry's profile, then the push
appendChatMessageB(coll, userId, chatEntry, t) ==
    LET entry == Default(chatEntry, Obj(EmptyObject))
        ensured == ensureUserContextB(coll, userId,
                       Or(OptGet(SampleEntry(entry), "profile"), Obj(EmptyObject)), t)
    IN  IF ensured.res.kind # "id" THEN ensured
        ELSE PushEntries(ensured.coll, ensured.res.id, ChatEntries(entry, t), t)

-----------------------------------------------------------------------------
(* The exported functions of the loaded copy *)

ensureUserContext(coll, userId, profile, t) ==
    IF copy = "A" THEN ensureUserContextA(coll, userId, profile, t)
    ELSE ensureUserContextB(coll, userId, profile, t)

updateLocationAndWeather(coll, userId, arg, t) ==
    IF copy = "A" THEN updateLocationAndWeatherA(coll, userId, arg, t)
    ELSE updateLocationAndWeatherB(coll, userId, arg, t)

appendChatMessage(coll, userId, chatEntry, t) ==
    IF copy = "A" THEN appendChatMessageA(coll, userId, chatEntry, t)
    ELSE appendChatMessageB(coll, userId, chatEntry, t)

-----------------------------------------------------------------------------
(* server.js: GET /weather, its cache and its upstream provider *)

\* WEATHER_CACHE_TTL = 10 * 60 * 1000 ms, in minutes, the unit of the weather clock
WEATHER_CACHE_TTL == 10

NoEntry == [t |-> "none"]

\* a query parameter that is absent
Missing == [t |-> "undefined"]

\* a query parameter holding a decimal number, given in thousandths of a degree
Coord(milli) == [t |-> "string", milli |-> milli]

\* !lat for a query parameter: absent or the empty string
NotGiven(q) == q.t = "undefined" \/ (q.t = "string" /\ "s" \in DOMAIN q /\ q.s = "")

\* parseFloat(q).toFixed(2): hundredths of a degree, rounded to nearest
ToFixed2(q) ==
    IF q.milli >= 0 THEN (q.milli + 5) \div 10 ELSE -((5 - q.milli) \div 10)

\* cacheKey = `${parseFloat(lat).toFixed(2)},${parseFloat(lon).toFixed(2)}`
CacheKey(lat, lon) == <<ToFixed2(lat), ToFixed2(lon)>>

\* Math.round of a value given in tenths
MathRound(tenths) == (tenths + 5) \div 10

\* a || b on numbers
NumOr(a, b) == IF a # 0 THEN a ELSE b

\* weatherDescriptions[weatherCode] || 'Unknown'
WeatherDescription(code) ==
    CASE code = 1000 -> "Clear"
      [] code = 1001 -> "Cloudy"
      [] code = 1100 -> "Mostly Clear"
      [] code = 1101 -> "Partly Cloudy"
      [] code = 1102 -> "Mostly Cloudy"
      [] code = 2000 -> "Fog"
      [] code = 2100 -> "Light Fog"
      [] code = 3000 -> "Light Wind"
      [] code = 3001 -> "Wind"
      [] code = 3002 -> "Strong Wind"
      [] code = 4000 -> "Drizzle"
      [] code = 4001 -> "Rain"
      [] code = 4200 -> "Light Rain"
      [] code = 4201 -> "Heavy Rain"
      [] code = 5000 -> "Snow"
      [] code = 5001 -> "Flurries"
      [] code = 5100 -> "Light Snow"
      [] code = 5101 -> "Heavy Snow"
      [] code = 6000 -> "Freezing Drizzle"
      [] code = 6001 -> "Freezing Rain"
      [] code = 6200 -> "Light Freezing Rain"
      [] code = 6201 -> "Heavy Freezing Rain"
      [] code = 7000 -> "Ice Pellets"
      [] code = 7101 -> "Heavy Ice Pellets"
      [] code = 7102 -> "Light Ice Pellets"
      [] code = 8000 -> "Thunderstorm"
      [] OTHER -> "Unknown"

\* mutant of Advisory: the temperature tests come before the precipitation tests
AdvisoryTemperatureFirst(precipitationProbability, temperature, windSpeed) ==
    IF temperature > 350
    THEN "High temperature. Ensure adequate irrigation. Avoid midday fieldwork."
    ELSE IF temperature < 150
    THEN "Cool weather. Monitor frost-sensitive crops. Good for harvesting."
    ELSE IF precipitationProbability > 700
    THEN "High chance of rain. Postpone spraying activities. Good time for indoor planning."
    ELSE IF precipitationProbability > 400
    THEN "Moderate rain expected. Good time for irrigation planning and soil preparation."
    ELSE IF windSpeed > 200
    THEN "Windy conditions. Avoid pesticide application. Secure farm equipment."
    ELSE "Favorable conditions for farming activities. Plan your fieldwork accordingly."

\* the advisory chain, first match wins; values in tenths
Advisory(precipitationProbability, temperature, windSpeed) ==
    IF precipitationProbability > 700
    THEN "High chance of rain. Postpone spraying activities. Good time for indoor planning."
    ELSE IF precipitationProbability > 400
    THEN "Moderate rain expected. Good time for irrigation planning and soil preparation."
    ELSE IF temperature > 350
    THEN "High temperature. Ensure adequate irrigation. Avoid midday fieldwork."
    ELSE IF temperature < 150
    THEN "Cool weather. Monitor frost-sensitive crops. Good for harvesting."
    ELSE IF windSpeed > 200
    THEN "Windy conditions. Avoid pesticide application. Secure farm equipment."
    ELSE "Favorable conditions for farming activities. Plan your fieldwork accordingly."

\* one entry of the 7-day forecast, from one day of the daily timeline
ForecastDay(day) ==
    [date |-> day.time,
     temperatureMax |-> MathRound(NumOr(day.temperatureMax, NumOr(day.temperature, 0))),
     temperatureMin |-> MathRound(NumOr(day.temperatureMin, NumOr(day.temperature, 0))),
     weatherCode |-> NumOr(day.weatherCode, 0),
     precipitationProbability |-> MathRound(NumOr(day.precipitationProbability, 0))]

\* the data object built from a 2xx upstream body (values in tenths), without the flags
WeatherData(body) ==
    LET temperature == NumOr(body.temperature, NumOr(body.temperatureApparent, 0))
        humidity == NumOr(body.humidity, 0)
        windSpeed == NumOr(body.windSpeed, 0)
        precipitationProbability == NumOr(body.precipitationProbability, 0)
        weatherCode == NumOr(body.weatherCode, 0)
        daily == SubSeq(body.daily, 1, IF Len(body.daily) < 7 THEN Len(body.daily) ELSE 7)
    IN  [temperature |-> MathRound(temperature),
         humidity |-> MathRound(humidity),
         windSpeed |-> MathRound(windSpeed),
         precipitationProbability |-> MathRound(precipitationProbability),
         weatherCode |-> weatherCode,
         condition |-> WeatherDescription(weatherCode),
         advisory |-> Advisory(precipitationProbability, temperature, windSpeed),
         forecast |-> [i \in 1..Len(daily) |-> ForecastDay(daily[i])]]

\* the hard-coded fallback data
FallbackData ==
    [temperature |-> 28, humidity |-> 65, windSpeed |-> 10, precipitationProbability |-> 20,
     weatherCode |-> 1101, condition |-> "Partly Cloudy",
     advisory |-> "Weather data temporarily unavailable. Using estimated conditions.",
     fallback |-> TRUE]

\* res.status(200).json({ status: 'success', data })
Success(data) == [status |-> 200, data |-> data]

\* res.status(code).json({ error: { code: name } })
Failure(status, code) == [status |-> status, code |-> code]

\* mutant of IsFresh: an entry exactly TTL old still counts as fresh
IsFreshInclusive(cachedData, t) ==
    cachedData # NoEntry /\ t - cachedData.timestamp <= WEATHER_CACHE_TTL

\* cachedData && Date.now() - cachedData.timestamp < WEATHER_CACHE_TTL
IsFresh(cachedData, t) ==
    cachedData # NoEntry /\ t - cachedData.timestamp < WEATHER_CACHE_TTL

\* the response to a failed upstream call: the cached data marked stale, else the fallback
StaleOrFallback(cachedData) ==
    IF cachedData # NoEntry
    THEN Success(Spread(cachedData.data, [cached |-> TRUE, stale |-> TRUE]))
    ELSE Success(FallbackData)

\* the response when no API key is configured
NotConfigured(cachedData) ==
    IF cachedData # NoEntry
    THEN Success(Spread(cachedData.data, [cached |-> TRUE, stale |-> TRUE]))
    ELSE Failure(500, "CONFIG_ERROR")

\* how the upstream call can fail: status 429, another non-2xx status, an error thrown
\* by fetch
UpstreamFailures == {"rateLimited", "httpError", "transportError"}

\* 2xx bodies of the provider: warm and cloudy; rain, no temperature but an apparent one,
\* with one forecast day
UpstreamBodies ==
    {[temperature |-> 284, temperatureApparent |-> 290, humidity |-> 655, windSpeed |-> 120,
      precipitationProbability |-> 204, weatherCode |-> 1101, daily |-> <<>>],
     [temperature |-> 0, temperatureApparent |-> 145, humidity |-> 0, windSpeed |-> 215,
      precipitationProbability |-> 705, weatherCode |-> 4001,
      daily |-> <<[time |-> "day1", temperatureMax |-> 0, temperatureMin |-> 126,
                   temperature |-> 181, weatherCode |-> 0,
                   precipitationProbability |-> 555]>>]}

\* req.query of the requests: decimal lat and lon, two latitudes in one bucket and one
\* in the next; lat absent; lon empty
ValidQueries ==
    {[lat |-> Coord(18831), lon |-> Coord(74377)],
     [lat |-> Coord(18834), lon |-> Coord(74377)],
     [lat |-> Coord(18836), lon |-> Coord(74377)]}

InvalidQueries ==
    {[lat |-> Missing, lon |-> Coord(74377)],
     [lat |-> Coord(18831), lon |-> [t |-> "string", s |-> ""]]}

CacheKeys == {CacheKey(q.lat, q.lon) : q \in ValidQueries}

\* the context store as it is while only weather requests run
ContextIdle ==
    /\ copy = "A"
    /\ rejectsConflict = TRUE
    /\ collection = [u \in ValidIds |-> NoDoc]
    /\ sent = [u \in ValidIds |-> 0]
    /\ last = [op |-> "none"]
    /\ CallsIdle

\* the weather endpoint as it is while only context-store calls run
WeatherIdle ==
    /\ apiKey = TRUE
    /\ weatherCache = [k \in CacheKeys |-> NoEntry]
    /\ inflight = EmptyBag
    /\ fetched = [k \in CacheKeys |-> NoEntry]
    /\ wlast = [flip |-> FALSE, event |-> "none"]

InitWeather ==
    /\ ContextIdle
    /\ OtpIdle
    /\ now = 0
    /\ apiKey \in BOOLEAN
    /\ weatherCache = [k \in CacheKeys |-> NoEntry]
    /\ inflight = EmptyBag
    /\ fetched = [k \in CacheKeys |-> NoEntry]
    /\ wlast = [flip |-> FALSE, event |-> "none"]

\* a handler answered: the request, what the upstream call did, the response
Answered(query, upstream, response) ==
    [flip |-> ~wlast.flip, event |-> "answered", query |-> query, at |-> now,
     upstream |-> upstream, response |-> response]

\* GET /weather without lat or lon: 400
WeatherRequestInvalid(query) ==
    /\ NotGiven(query.lat) \/ NotGiven(query.lon)
    /\ wlast' = [flip |-> ~wlast.flip, event |-> "rejected", at |-> now,
                 response |-> Failure(400, "VALIDATION_ERROR")]
    /\ UNCHANGED <<apiKey, weatherCache, inflight, fetched, now, ctxVars, otpVars, callVars>>

\* GET /weather answered from a fresh cache entry
WeatherRequestCached(query) ==
    /\ ~NotGiven(query.lat) /\ ~NotGiven(query.lon)
    /\ LET cacheKey == CacheKey(query.lat, query.lon)
           cachedData == weatherCache[cacheKey]
       IN  /\ IsFresh(cachedData, now)
           /\ wlast' = Answered(query, "none",
                                Success(Spread(cachedData.data, [cached |-> TRUE])))
    /\ UNCHANGED <<apiKey, weatherCache, inflight, fetched, now, ctxVars, otpVars, callVars>>

\* GET /weather with no fresh entry and no API key
WeatherRequestNoKey(query) ==
    /\ ~NotGiven(query.lat) /\ ~NotGiven(query.lon)
    /\ LET cacheKey == CacheKey(query.lat, query.lon)
           cachedData == weatherCache[cacheKey]
       IN  /\ ~IsFresh(cachedData, now)
           /\ ~apiKey
           /\ wlast' = Answered(query, "none", NotConfigured(cachedData))
    /\ UNCHANGED <<apiKey, weatherCache, inflight, fetched, now, ctxVars, otpVars, callVars>>

\* GET /weather with no fresh entry: the handler calls the provider and is suspended,
\* holding the query, the cache key and the cachedData it read
WeatherRequestFetch(query) ==
    /\ ~NotGiven(query.lat) /\ ~NotGiven(query.lon)
    /\ BagCardinality(inflight) < MaxInFlight
    /\ LET cacheKey == CacheKey(query.lat, query.lon)
           cachedData == weatherCache[cacheKey]
       IN  /\ ~IsFresh(cachedData, now)
           /\ apiKey
           /\ inflight' = inflight (+) SetToBag({[query |-> query, cacheKey |-> cacheKey,
                                                  cachedData |-> cachedData]})
           /\ wlast' = [flip |-> ~wlast.flip, event |-> "fetching", query |-> query,
                        at |-> now]
    /\ UNCHANGED <<apiKey, weatherCache, fetched, now, ctxVars, otpVars, callVars>>

\* the provider answers 429: the handler serves the cachedData it read before the call
UpstreamRateLimited(handler) ==
    /\ BagIn(handler, inflight)
    /\ inflight' = inflight (-) SetToBag({handler})
    /\ wlast' = Answered(handler.query, "rateLimited", StaleOrFallback(handler.cachedData))
    /\ UNCHANGED <<apiKey, weatherCache, fetched, now, ctxVars, otpVars, callVars>>

\* the provider answers another non-2xx status, or fetch throws: the catch block reads
\* the cache again
UpstreamThrows(handler, outcome) ==
    /\ BagIn(handler, inflight)
    /\ outcome \in UpstreamFailures \ {"rateLimited"}
    /\ inflight' = inflight (-) SetToBag({handler})
    /\ wlast' = Answered(handler.query, outcome,
                         StaleOrFallback(weatherCache[CacheKey(handler.query.lat,
                                                               handler.query.lon)]))
    /\ UNCHANGED <<apiKey, weatherCache, fetched, now, ctxVars, otpVars, callVars>>

\* the provider answers 2xx with body: the data is cached with the clock reading of that
\* moment and returned (a failed insert into the weather collection is swallowed)
UpstreamAnswers(handler, body) ==
    /\ BagIn(handler, inflight)
    /\ inflight' = inflight (-) SetToBag({handler})
    /\ weatherCache' = [weatherCache EXCEPT ![handler.cacheKey] =
                            [timestamp |-> now, data |-> WeatherData(body)]]
    /\ fetched' = [fetched EXCEPT ![handler.cacheKey] =
                       [at |-> now, query |-> handler.query, data |-> WeatherData(body)]]
    /\ wlast' = Answered(handler.query, "ok",
                         Success(Spread(WeatherData(body), [cached |-> FALSE])))
    /\ UNCHANGED <<apiKey, now, ctxVars, otpVars, callVars>>

\* time passes
TickWeather ==
    /\ now' \in {t \in ClockReadings : t > now}
    /\ UNCHANGED <<ctxVars, weatherVars, otpVars, callVars>>

NextWeather ==
    \/ \E query \in InvalidQueries : WeatherRequestInvalid(query)
    \/ \E query \in ValidQueries : WeatherRequestCached(query)
    \/ \E query \in ValidQueries : WeatherRequestNoKey(query)
    \/ \E query \in ValidQueries : WeatherRequestFetch(query)
    \/ \E handler \in BagToSet(inflight) : UpstreamRateLimited(handler)
    \/ \E handler \in BagToSet(inflight), outcome \in UpstreamFailures :
           UpstreamThrows(handler, outcome)
    \/ \E handler \in BagToSet(inflight), body \in UpstreamBodies :
           UpstreamAnswers(handler, body)
    \/ TickWeather

SpecWeather == InitWeather /\ [][NextWeather]_vars

\* the same, with what is bound to happen while a handler is suspended at
\* fetch(tomorrowUrl), to which the handler passes no signal and no timeout: time passes,
\* and the event loop goes on answering the requests that need no upstream call.
\* Whether the provider ever settles the call is up to the provider.
SpecWeatherFair ==
    /\ SpecWeather
    /\ WF_vars(TickWeather)
    /\ WF_vars(\E query \in InvalidQueries : WeatherRequestInvalid(query))

\* whole-number readings of the provider around the thresholds of the advisory chain
PrecipitationReadings == {0, 39, 40, 41, 69, 70, 71, 100}

TemperatureReadings == {0, 14, 15, 16, 25, 34, 35, 36}

WindReadings == {5, 19, 20, 21}

\* 2xx bodies of the provider carrying these readings (in tenths)
AdvisoryBodies ==
    {[temperature |-> 10 * t, temperatureApparent |-> 10 * t, humidity |-> 650,
      windSpeed |-> 10 * w, precipitationProbability |-> 10 * p, weatherCode |-> 1101,
      daily |-> <<>>] :
         p \in PrecipitationReadings, t \in TemperatureReadings, w \in WindReadings}

\* GET /weather for one place, the provider answering with every combination of readings
NextAdvisory ==
    \/ WeatherRequestFetch([lat |-> Coord(18831), lon |-> Coord(74377)])
    \/ \E handler \in BagToSet(inflight), body \in AdvisoryBodies :
           UpstreamAnswers(handler, body)

SpecAdvisory == InitWeather /\ [][NextAdvisory]_vars

-----------------------------------------------------------------------------
(* server.js: POST /auth/send-otp and POST /auth/verify-otp *)

\* the 10 * 60 * 1000 ms an OTP is valid, in minutes, the unit of the OTP clock
OTP_TTL == 10

\* the number of charged attempts at which a record is refused
MAX_ATTEMPTS == 3

\* !SENDGRID_API_KEY || !SENDGRID_FROM, negated
EmailConfigured == sendgrid.apiKey /\ sendgrid.from

\* email.includes('@')
IncludesAt(email) == \E i \in 1..Len(email.c) : email.c[i] = "@"

\* !email || !email.includes('@'), negated
ValidEmail(email) == Truthy(email) /\ IncludesAt(email)

\* Math.floor(100000 + Math.random() * 900000): the two ends of the range
GeneratedCodes == {100000, 999999}

\* n.toString()
NumberToString(n) == Str(ToString(n))

\* mutant of StoreOtp: an outstanding record is kept, only its code is renewed
StoreOtpKeepsRecord(store, email, otp, t) ==
    IF store[email] # NoOtp THEN [store EXCEPT ![email].otp = otp]
    ELSE [store EXCEPT ![email] = [otp |-> otp, expiresAt |-> t + OTP_TTL, attempts |-> 0]]

\* otpStore.set(email, { otp, expiresAt: Date.now() + 10 * 60 * 1000, attempts: 0 })
StoreOtp(store, email, otp, t) ==
    [store EXCEPT ![email] = [otp |-> otp, expiresAt |-> t + OTP_TTL, attempts |-> 0]]

\* mutant of SendFailed: the record is removed when the mail cannot be sent
SendFailedRollsBack(store, email) == [store EXCEPT ![email] = NoOtp]

\* the catch block of send-otp: the store is not touched
SendFailed(store, email) == store

\* mutant of IsExpired: the record is expired at expiresAt already
IsExpiredAtDeadline(storedOtpData, t) == t >= storedOtpData.expiresAt

\* Date.now() > storedOtpData.expiresAt
IsExpired(storedOtpData, t) == t > storedOtpData.expiresAt

\* mutant of AttemptsExhausted: one more attempt is let through
AttemptsExhaustedLate(storedOtpData) == storedOtpData.attempts > MAX_ATTEMPTS

\* storedOtpData.attempts >= 3
AttemptsExhausted(storedOtpData) == storedOtpData.attempts >= MAX_ATTEMPTS

\* mutant of Charge: the increment is lost
ChargeLost(storedOtpData) == storedOtpData

\* storedOtpData.attempts++
Charge(storedOtpData) == [storedOtpData EXCEPT !.attempts = @ + 1]

\* mutant of Verified: the record stays in the store after a match
VerifiedKeepsRecord(storedOtpData) == storedOtpData

\* otpStore.delete(email) after a match: what is left of the record
Verified(storedOtpData) == NoOtp

\* mutant of verifyOtp: the code is compared before the attempts are tested
verifyOtpComparesFirst(storedOtpData, otp, t) ==
    IF storedOtpData = NoOtp
    THEN [code |-> "OTP_NOT_FOUND", record |-> NoOtp]
    ELSE IF IsExpired(storedOtpData, t)
    THEN [code |-> "OTP_EXPIRED", record |-> NoOtp]
    ELSE IF storedOtpData.otp = otp
    THEN [code |-> "verified", record |-> Verified(storedOtpData)]
    ELSE IF AttemptsExhausted(storedOtpData)
    THEN [code |-> "TOO_MANY_ATTEMPTS", record |-> NoOtp]
    ELSE [code |-> "INVALID_OTP", record |-> Charge(storedOtpData),
          remaining |-> MAX_ATTEMPTS - Charge(storedOtpData).attempts]

\* verify-otp from otpStore.get to the match, which runs without suspension: the
\* answer's code ("verified" when the code matched) and what is left of the record
verifyOtp(storedOtpData, otp, t) ==
    IF storedOtpData = NoOtp
    THEN [code |-> "OTP_NOT_FOUND", record |-> NoOtp]
    ELSE IF IsExpired(storedOtpData, t)
    THEN [code |-> "OTP_EXPIRED", record |-> NoOtp]
    ELSE IF AttemptsExhausted(storedOtpData)
    THEN [code |-> "TOO_MANY_ATTEMPTS", record |-> NoOtp]
    ELSE IF storedOtpData.otp # otp
    THEN [code |-> "INVALID_OTP", record |-> Charge(storedOtpData),
          remaining |-> MAX_ATTEMPTS - Charge(storedOtpData).attempts]
    ELSE [code |-> "verified", record |-> Verified(storedOtpData)]

\* req.body.email of the requests: absent, empty, without '@', well-formed
EmailArgs == {UNDEF, Text(<<>>), Text(<<"f", "x">>)} \cup {Text(e) : e \in Emails}

\* req.body.otp of verify-otp: absent, a generated code as a string, one as a number
OtpArgs == {UNDEF, Num(100000)} \cup {NumberToString(n) : n \in GeneratedCodes}

\* req.body.name of verify-otp
NameArgs == {UNDEF, Str("Asha")}

\* the (email, otp) bodies of verify-otp that lack one of the two
IncompleteBodies ==
    {[email |-> UNDEF, otp |-> NumberToString(100000)],
     [email |-> Text(Farmer), otp |-> UNDEF],
     [email |-> Text(<<>>), otp |-> UNDEF]}

\* the addresses verify-otp is called with that no code was ever sent to
UnknownEmailArgs == {Text(<<"f", "x">>)}

InitOtp ==
    /\ ContextIdle
    /\ WeatherIdle
    /\ now = 0
    /\ sendgrid \in [apiKey : BOOLEAN, from : BOOLEAN]
    /\ otpStore = [e \in Emails |-> NoOtp]
    /\ usersCollection = [e \in Emails |-> NoUser]
    /\ mails = EmptyBag
    /\ verifying = EmptyBag
    /\ charged = [e \in Emails |-> 0]
    /\ matched = [e \in Emails |-> 0]
    /\ olast = [flip |-> FALSE, event |-> "none"]

\* a handler of an OTP endpoint answered
OtpAnswered(op, email, status, code) ==
    [flip |-> ~olast.flip, event |-> "answered", op |-> op, email |-> email,
     status |-> status, code |-> code]

\* send-otp without a well-formed email: 400
SendOtpInvalid(email) ==
    /\ ~ValidEmail(email)
    /\ olast' = OtpAnswered("send-otp", email, 400, "VALIDATION_ERROR")
    /\ UNCHANGED <<sendgrid, otpStore, usersCollection, mails, verifying, charged, matched,
                   now, ctxVars, weatherVars, callVars>>

\* send-otp while SendGrid is not configured: 503, before any code is generated
SendOtpUnconfigured(email) ==
    /\ ValidEmail(email)
    /\ ~EmailConfigured
    /\ olast' = OtpAnswered("send-otp", email, 503, "SERVICE_UNAVAILABLE")
    /\ UNCHANGED <<sendgrid, otpStore, usersCollection, mails, verifying, charged, matched,
                   now, ctxVars, weatherVars, callVars>>

\* send-otp: the code n is generated and stored, and the handler is suspended at
\* sgMail.send (sendOtpEmail's own configuration check passes, the handler made it)
SendOtpStore(email, n) ==
    /\ ValidEmail(email)
    /\ EmailConfigured
    /\ BagCardinality(mails) < MaxMails
    /\ otpStore' = StoreOtp(otpStore, email.c, NumberToString(n), now)
    /\ charged' = [charged EXCEPT ![email.c] = 0]
    /\ matched' = [matched EXCEPT ![email.c] = 0]
    /\ mails' = mails (+) SetToBag({[email |-> email, otp |-> NumberToString(n)]})
    /\ olast' = [flip |-> ~olast.flip, event |-> "stored", op |-> "send-otp",
                 email |-> email, otp |-> NumberToString(n),
                 replaced |-> otpStore[email.c]]
    /\ UNCHANGED <<sendgrid, usersCollection, verifying, now, ctxVars, weatherVars, callVars>>

\* SendGrid accepts the mail: success
MailAccepted(handler) ==
    /\ BagIn(handler, mails)
    /\ mails' = mails (-) SetToBag({handler})
    /\ olast' = OtpAnswered("send-otp", handler.email, 200, "success")
    /\ UNCHANGED <<sendgrid, otpStore, usersCollection, verifying, charged, matched,
                   now, ctxVars, weatherVars, callVars>>

\* sgMail.send throws: sendOtpEmail rethrows and the handler's catch block answers 500
MailFails(handler) ==
    /\ BagIn(handler, mails)
    /\ mails' = mails (-) SetToBag({handler})
    /\ otpStore' = SendFailed(otpStore, handler.email.c)
    /\ olast' = OtpAnswered("send-otp", handler.email, 500, "SERVER_ERROR")
    /\ UNCHANGED <<sendgrid, usersCollection, verifying, charged, matched,
                   now, ctxVars, weatherVars, callVars>>

\* what a verify-otp handler met and answered before any suspension
VerifyAnswered(email, otp, found, result) ==
    [flip |-> ~olast.flip, event |-> "answered", op |-> "verify-otp", email |-> email,
     otp |-> otp, found |-> found, status |-> 400, code |-> result.code,
     remaining |-> IF "remaining" \in DOMAIN result THEN result.remaining ELSE -1]

\* verify-otp without email or otp: 400
VerifyOtpInvalid(email, otp) ==
    /\ ~Truthy(email) \/ ~Truthy(otp)
    /\ olast' = OtpAnswered("verify-otp", email, 400, "VALIDATION_ERROR")
    /\ UNCHANGED <<sendgrid, otpStore, usersCollection, mails, verifying, charged, matched,
                   now, ctxVars, weatherVars, callVars>>

\* verify-otp for an address the store has no entry for (any string is a Map key)
VerifyOtpUnknown(email, otp) ==
    /\ Truthy(email) /\ Truthy(otp)
    /\ email.c \notin Emails
    /\ olast' = VerifyAnswered(email, otp, NoOtp, verifyOtp(NoOtp, otp, now))
    /\ UNCHANGED <<sendgrid, otpStore, usersCollection, mails, verifying, charged, matched,
                   now, ctxVars, weatherVars, callVars>>

\* verify-otp refused: not found, expired, attempts exhausted or wrong code
VerifyOtpRefused(email, otp) ==
    /\ Truthy(email) /\ Truthy(otp)
    /\ email.c \in Emails
    /\ LET storedOtpData == otpStore[email.c]
           result == verifyOtp(storedOtpData, otp, now)
       IN  /\ result.code # "verified"
           /\ otpStore' = [otpStore EXCEPT ![email.c] = result.record]
           /\ charged' = IF result.code = "INVALID_OTP"
                         THEN [charged EXCEPT ![email.c] = @ + 1] ELSE charged
           /\ olast' = VerifyAnswered(email, otp, storedOtpData, result)
    /\ UNCHANGED <<sendgrid, usersCollection, mails, verifying, matched,
                   now, ctxVars, weatherVars, callVars>>

\* verify-otp with the stored code: the record is deleted and the handler is suspended
\* at usersCollection.findOne
VerifyOtpMatched(email, otp, name) ==
    /\ Truthy(email) /\ Truthy(otp)
    /\ email.c \in Emails
    /\ BagCardinality(verifying) < MaxVerifying
    /\ LET storedOtpData == otpStore[email.c]
           result == verifyOtp(storedOtpData, otp, now)
       IN  /\ result.code = "verified"
           /\ otpStore' = [otpStore EXCEPT ![email.c] = result.record]
           /\ matched' = [matched EXCEPT ![email.c] = @ + 1]
           /\ verifying' = verifying (+)
                               SetToBag({[email |-> email, otp |-> otp, name |-> name,
                                          pc |-> "findOne"]})
           /\ olast' = [flip |-> ~olast.flip, event |-> "verified", op |-> "verify-otp",
                        email |-> email, otp |-> otp, found |-> storedOtpData]
    /\ UNCHANGED <<sendgrid, usersCollection, mails, charged, now, ctxVars, weatherVars, callVars>>

\* mutant of NameMissing: a signup is accepted without a name
NameMissingAccepted(name) == FALSE

\* !name in the signup branch
NameMissing(name) == ~Truthy(name)

\* usersCollection.findOne({ email }) returns: the login or the signup branch is taken;
\* a signup without a name is answered 400
UsersFindOne(handler) ==
    /\ BagIn(handler, verifying)
    /\ handler.pc = "findOne"
    /\ LET existingUser == usersCollection[handler.email.c]
           rest == verifying (-) SetToBag({handler})
       IN  IF existingUser # NoUser
           THEN /\ verifying' = rest (+) SetToBag({[handler EXCEPT !.pc = "updateOne"]})
                /\ olast' = [flip |-> ~olast.flip, event |-> "found", op |-> "verify-otp",
                             email |-> handler.email]
           ELSE IF NameMissing(handler.name)
           THEN /\ verifying' = rest
                /\ olast' = Spread(OtpAnswered("verify-otp", handler.email, 400,
                                               "VALIDATION_ERROR"),
                                   [message |-> "Name is required for signup"])
           ELSE /\ verifying' = rest (+) SetToBag({[handler EXCEPT !.pc = "insertOne"]})
                /\ olast' = [flip |-> ~olast.flip, event |-> "absent", op |-> "verify-otp",
                             email |-> handler.email]
    /\ UNCHANGED <<sendgrid, otpStore, usersCollection, mails, charged, matched,
                   now, ctxVars, weatherVars, callVars>>

\* usersCollection.updateOne({ email }, { $set: { lastLogin } }) returns: login
UsersUpdateOne(handler) ==
    /\ BagIn(handler, verifying)
    /\ handler.pc = "updateOne"
    /\ verifying' = verifying (-) SetToBag({handler})
    /\ usersCollection' =
           IF usersCollection[handler.email.c] = NoUser THEN usersCollection
           ELSE [usersCollection EXCEPT ![handler.email.c].lastLogin = now]
    /\ olast' = OtpAnswered("verify-otp", handler.email, 200, "Login successful")
    /\ UNCHANGED <<sendgrid, otpStore, mails, charged, matched, now, ctxVars, weatherVars, callVars>>

\* usersCollection.insertOne(newUser) returns: registration
UsersInsertOne(handler) ==
    /\ BagIn(handler, verifying)
    /\ handler.pc = "insertOne"
    /\ verifying' = verifying (-) SetToBag({handler})
    /\ usersCollection' = [usersCollection EXCEPT ![handler.email.c] =
                               [name |-> handler.name, lastLogin |-> now]]
    /\ olast' = OtpAnswered("verify-otp", handler.email, 200, "Registration successful")
    /\ UNCHANGED <<sendgrid, otpStore, mails, charged, matched, now, ctxVars, weatherVars, callVars>>

\* a call on the users collection throws: the catch block answers 500
UsersThrows(handler) ==
    /\ BagIn(handler, verifying)
    /\ verifying' = verifying (-) SetToBag({handler})
    /\ olast' = OtpAnswered("verify-otp", handler.email, 500, "SERVER_ERROR")
    /\ UNCHANGED <<sendgrid, otpStore, usersCollection, mails, charged, matched,
                   now, ctxVars, weatherVars, callVars>>

\* time passes
TickOtp ==
    /\ now' \in {t \in OtpClockReadings : t > now}
    /\ UNCHANGED <<ctxVars, weatherVars, otpVars, callVars>>

NextOtp ==
    \/ \E email \in EmailArgs : SendOtpInvalid(email)
    \/ \E email \in EmailArgs : SendOtpUnconfigured(email)
    \/ \E email \in EmailArgs, n \in GeneratedCodes : SendOtpStore(email, n)
    \/ \E handler \in BagToSet(mails) : MailAccepted(handler)
    \/ \E handler \in BagToSet(mails) : MailFails(handler)
    \/ \E body \in IncompleteBodies : VerifyOtpInvalid(body.email, body.otp)
    \/ \E email \in UnknownEmailArgs : VerifyOtpUnknown(email, NumberToString(100000))
    \/ \E e \in Emails, otp \in OtpArgs : VerifyOtpRefused(Text(e), otp)
    \/ \E e \in Emails, otp \in OtpArgs, name \in NameArgs :
           VerifyOtpMatched(Text(e), otp, name)
    \/ \E handler \in BagToSet(verifying) : UsersFindOne(handler)
    \/ \E handler \in BagToSet(verifying) : UsersUpdateOne(handler)
    \/ \E handler \in BagToSet(verifying) : UsersInsertOne(handler)
    \/ \E handler \in BagToSet(verifying) : UsersThrows(handler)
    \/ TickOtp

SpecOtp == InitOtp /\ [][NextOtp]_vars

-----------------------------------------------------------------------------
(* The callers' arguments *)

\* userId arguments: an ObjectId string, an object carrying one, a string that is no
\* ObjectId, null
GoodIdArgs == {Str(u) : u \in ValidIds}

\* an object carrying an ObjectId string as its _id
GoodIdObjects == {Obj([_id |-> Str(u)]) : u \in ValidIds}

BadIdArgs == {Str("not-an-id"), NULL}

FullProfile ==
    Obj([name |-> Str("Test Farmer"), email |-> Str("testfarmer@example.com"),
         phone |-> Str("+919876543210"), language |-> Str("hi")])

\* profile arguments: omitted, partial ones, one with an empty string, a full one
ProfileArgs ==
    {UNDEF,
     Obj([name |-> Str("Asha")]),
     Obj([email |-> Str("asha@example.com"), phone |-> Str("")]),
     FullProfile}

RealLocation ==
    Obj([address |-> Str("Village Shirur"), lat |-> Num(0), longitude |-> Num(74),
         precision |-> Str("locality"), raw |-> Str("Shirur, Pune, MH")])

\* location arguments whose fields are all empty: omitted, null, {}, empty strings and nulls
EmptyLocationArgs ==
    {UNDEF, NULL, Obj(EmptyObject),
     Obj([address |-> Str(""), latitude |-> NULL, longitude |-> NULL, raw |-> Str("")])}

\* location arguments: the empty ones and one with the equator's coordinates
LocationArgs == EmptyLocationArgs \cup {RealLocation}

RealWeather ==
    Obj([temp |-> Num(28), humidity |-> Num(65), summary |-> Str("Partly Cloudy"),
         windSpeed |-> Num(12), precipitationProbability |-> Num(0)])

\* weather arguments that carry no value: omitted, null, {}, nulls and an empty condition
EmptyWeatherArgs ==
    {UNDEF, NULL, Obj(EmptyObject), Obj([temperature |-> NULL, condition |-> Str("")])}

\* weather arguments: the empty ones and one with values, some under the alternative keys
WeatherArgs == EmptyWeatherArgs \cup {RealWeather}

\* the second argument of updateLocationAndWeather
UpdateArg(profile, location, weather) ==
    LET o1 == IF profile = UNDEF THEN EmptyObject ELSE [profile |-> profile]
        o2 == IF location = UNDEF THEN o1 ELSE Spread(o1, [location |-> location])
    IN  Obj(IF weather = UNDEF THEN o2 ELSE Spread(o2, [weather |-> weather]))

\* the text of the n-th message a caller supplies
MessageChar(n) == ToString(n)

\* the kinds of chat entry callers pass; the first three carry a message
NonEmptyKinds == {"user", "assistantStamped", "system"}

ChatEntry(kind, n) ==
    CASE kind = "user" ->
           Obj([role |-> Str("user"), message |-> Text(<<MessageChar(n)>>)])
      [] kind = "assistantStamped" ->
           Obj([role |-> Str("assistant"), message |-> Text(<<" ", MessageChar(n), " ">>),
                timestamp |-> DateV(0)])
      [] kind = "system" ->
           Obj([role |-> Str("system"), message |-> Text(<<MessageChar(n)>>)])
      [] kind = "empty" ->
           Obj([role |-> Str("user"), message |-> Text(<<>>)])
      [] kind = "blank" ->
           Obj([role |-> Str("assistant"), message |-> Text(<<" ", " ">>)])
      [] OTHER ->
           Obj([role |-> Str("user")])

\* the kind of the i-th entry of a batch of each shape
KindAt(shape, i) ==
    CASE shape = "users" -> "user"
      [] shape = "dialog" -> IF i % 2 = 1 THEN "user" ELSE "assistantStamped"
      [] shape = "gaps" -> <<"blank", "system", "empty", "assistantStamped", "noMessage", "user">>[((i - 1) % 6) + 1]
      [] OTHER -> <<"empty", "blank", "noMessage">>[((i - 1) % 3) + 1]

BatchShapes == {"users", "dialog", "gaps", "void"}

\* how many of the first i entries of a batch carry a message
Carrying(shape, i) == Cardinality({j \in 1..i : KindAt(shape, j) \in NonEmptyKinds})

\* a batch of n entries whose messages are numbered from first on
Batch(shape, n, first) ==
    [i \in 1..n |-> ChatEntry(KindAt(shape, i), first + Carrying(shape, i - 1))]

-----------------------------------------------------------------------------
(* State and actions of the context store *)

Existed(userId) ==
    normalizeObjectId(userId) # "" /\ collection[normalizeObjectId(userId)] # NoDoc

\* what the last call was and what it met
Called(op, userId, arg, res) ==
    [op |-> op, id |-> normalizeObjectId(userId), arg |-> arg,
     existed |-> Existed(userId), res |-> res]

InitContext ==
    /\ copy \in {"A", "B"}
    /\ rejectsConflict \in (IF copy = "A" THEN {TRUE} ELSE BOOLEAN)
    /\ collection = [u \in ValidIds |-> NoDoc]
    /\ now = 0
    /\ sent = [u \in ValidIds |-> 0]
    /\ last = [op |-> "none"]
    /\ WeatherIdle
    /\ OtpIdle
    /\ CallsIdle

EnsureUserContext(userId, profile) ==
    LET r == ensureUserContext(collection, userId, profile, now)
    IN  /\ collection' = r.coll
        /\ last' = Called("ensureUserContext", userId, profile, r.res)
        /\ UNCHANGED <<copy, rejectsConflict, now, sent, weatherVars, otpVars, callVars>>

UpdateLocationAndWeather(userId, arg) ==
    LET r == updateLocationAndWeather(collection, userId, arg, now)
    IN  /\ collection' = r.coll
        /\ last' = Called("updateLocationAndWeather", userId, arg, r.res)
        /\ UNCHANGED <<copy, rejectsConflict, now, sent, weatherVars, otpVars, callVars>>

\* appendChatMessage with a batch of the given shape and length, as an array or, for one
\* entry, as the bare entry
AppendChatMessage(userId, shape, n, bare) ==
    LET id == normalizeObjectId(userId)
        first == IF id = "" THEN 1 ELSE sent[id] + 1
        batch == Batch(shape, n, first)
        chatEntry == IF bare THEN batch[1] ELSE Arr(batch)
        r == appendChatMessage(collection, userId, chatEntry, now)
    IN  /\ bare => n = 1
        /\ id # "" => sent[id] + Carrying(shape, n) <= MaxSent
        /\ collection' = r.coll
        /\ last' = Called("appendChatMessage", userId, chatEntry, r.res)
        /\ sent' = IF id # "" /\ r.res.kind = "doc"
                   THEN [sent EXCEPT ![id] = @ + Carrying(shape, n)]
                   ELSE sent
        /\ UNCHANGED <<copy, rejectsConflict, now, weatherVars, otpVars, callVars>>

\* appendChatMessage(userId) with no entry at all
AppendNothing(userId) ==
    LET r == appendChatMessage(collection, userId, UNDEF, now)
    IN  /\ collection' = r.coll
        /\ last' = Called("appendChatMessage", userId, UNDEF, r.res)
        /\ UNCHANGED <<copy, rejectsConflict, now, sent, weatherVars, otpVars, callVars>>

FetchUserContext(userId) ==
    /\ last' = Called("fetchUserContext", userId, UNDEF, fetchUserContext(collection, userId))
    /\ UNCHANGED <<copy, rejectsConflict, collection, now, sent, weatherVars, otpVars, callVars>>

\* time passes between calls
Tick ==
    /\ now < MaxClock
    /\ now' = now + 1
    /\ UNCHANGED <<ctxVars, weatherVars, otpVars, callVars>>

\* calls of the profile, location and weather functions with an id that is no ObjectId
BadIdCall ==
    \E userId \in BadIdArgs :
        \/ EnsureUserContext(userId, FullProfile)
        \/ UpdateLocationAndWeather(userId, UpdateArg(UNDEF, RealLocation, RealWeather))
        \/ FetchUserContext(userId)

\* the (profile, location, weather) combinations callers of updateLocationAndWeather pass
UpdateArgs ==
    {UpdateArg(UNDEF, location, RealWeather) : location \in LocationArgs}
    \cup {UpdateArg(UNDEF, RealLocation, weather) : weather \in WeatherArgs}
    \cup {UpdateArg(UNDEF, UNDEF, UNDEF), UpdateArg(UNDEF, NULL, NULL),
          UpdateArg(FullProfile, RealLocation, RealWeather), UNDEF}

\* the context store under profile, location and weather traffic
NextContext ==
    \/ \E userId \in GoodIdArgs, profile \in ProfileArgs : EnsureUserContext(userId, profile)
    \/ \E userId \in GoodIdObjects : EnsureUserContext(userId, FullProfile)
    \/ \E userId \in GoodIdArgs, arg \in UpdateArgs : UpdateLocationAndWeather(userId, arg)
    \/ \E userId \in GoodIdArgs :
           /\ sent[normalizeObjectId(userId)] < MaxContextSent
           /\ AppendChatMessage(userId, "dialog", 2, FALSE)
    \/ \E userId \in GoodIdArgs : FetchUserContext(userId)
    \/ BadIdCall
    \/ Tick

SpecContext == InitContext /\ [][NextContext]_vars

\* the context store under chat traffic
NextChat ==
    \/ \E userId \in GoodIdArgs, shape \in BatchShapes, n \in 0..MaxBatch, bare \in BOOLEAN :
           AppendChatMessage(userId, shape, n, bare)
    \/ \E userId \in GoodIdArgs : AppendNothing(userId)
    \/ \E userId \in GoodIdArgs : EnsureUserContext(userId, UNDEF)
    \/ \E userId \in GoodIdArgs :
           UpdateLocationAndWeather(userId, UpdateArg(UNDEF, UNDEF, NULL))
    \/ \E userId \in BadIdArgs : AppendChatMessage(userId, "users", 1, FALSE)
    \/ Tick

SpecChat == InitContext /\ [][NextChat]_vars

-----------------------------------------------------------------------------
(* user-context.js with two callers at once: every await of a call is a point where the
   other caller's storage operations can come in between. A step is one storage operation
   reaching the server together with the caller's code up to its next await. *)

\* the largest number of chat entries the callers find stored
MaxPrior == 5

\* the length of the short batches of the two callers
SmallBatch == 2

\* the storage operation a suspended call waits for
FindOneReq == [kind |-> "findOne"]

UpdateOneReq(set) == [kind |-> "updateOne", set |-> set]

\* { $setOnInsert: doc }, { upsert: true }
UpsertInsertReq(doc) == [kind |-> "upsertInsert", doc |-> doc]

\* { $setOnInsert: doc, $set: set }, { upsert: true }
UpsertBothReq(doc, set) == [kind |-> "upsertBoth", doc |-> doc, set |-> set]

\* { $set: set }, { upsert: true }
UpsertSetReq(set) == [kind |-> "upsertSet", set |-> set]

\* { $push: { chats: { $each: entries, $slice: -5 } }, $set: set }
PushReq(entries, set) == [kind |-> "push", entries |-> entries, set |-> set]

NoReq == [kind |-> "none"]

\* the fields a storage operation writes into a document it matches
MatchedFields(req) ==
    CASE req.kind \in {"updateOne", "upsertBoth", "upsertSet"} -> DOMAIN req.set
      [] req.kind = "push" -> {"chats"} \cup DOMAIN req.set
      [] OTHER -> {}

\* the collection after the server applied the operation to the document of id
ApplyReq(req, coll, id) ==
    CASE req.kind = "updateOne" -> updateOneSet(coll, id, req.set)
      [] req.kind = "upsertInsert" -> upsertSetOnInsert(coll, id, req.doc)
      [] req.kind = "upsertBoth" ->
           IF rejectsConflict THEN coll
           ELSE upsertSetOnInsertAndSet(coll, id, req.doc, req.set)
      [] req.kind = "upsertSet" -> upsertSet(coll, id, req.set)
      [] req.kind = "push" -> updateOnePushSlice(coll, id, req.entries, req.set)
      [] OTHER -> coll

\* the call returned res: what it leaves behind is its result and the entries it pushed
Done(call, res) ==
    [call EXCEPT !.pc = "done", !.req = NoReq, !.res = res, !.t = 0, !.sp = NullProfile]

\* ensureUserContext up to its first await, for the caller's call record
Ensuring(call, profile, t) ==
    LET p == Default(profile, Obj(EmptyObject))
        sanitizedProfile == sanitizeProfile(p.o, p.o)
    IN  IF copy = "A"
        THEN [call EXCEPT !.pc = "ensure.findOne", !.req = FindOneReq,
                          !.t = t, !.sp = sanitizedProfile]
        ELSE [call EXCEPT !.pc = "ensure.write", !.t = t, !.sp = sanitizedProfile,
                          !.req = UpsertBothReq(
                                      [userId |-> call.id, profile |-> sanitizedProfile,
                                       location |-> NULL, weather |-> NULL, chats |-> <<>>,
                                       createdAt |-> t],
                                      [profile |-> sanitizedProfile, updatedAt |-> t])]

\* updateLocationAndWeather from the building of its $set to the await of the update
Setting(call, t) ==
    LET o == Default(call.arg, Obj(EmptyObject)).o
        set == LocationWeatherSet(Get(o, "location"), Get(o, "weather"), t)
    IN  [call EXCEPT !.pc = "set",
                     !.req = IF copy = "A" THEN UpdateOneReq(set) ELSE UpsertSetReq(set)]

\* appendChatMessage from the mapping of its entries to the await of the push, or to the
\* read it returns when no entry is left
Pushing(call, t) ==
    LET entries == ChatEntries(Default(call.arg, Obj(EmptyObject)), t)
    IN  IF Len(entries) = 0
        THEN [call EXCEPT !.pc = "return", !.req = FindOneReq]
        ELSE [call EXCEPT !.pc = "push", !.entries = entries,
                          !.req = PushReq(entries, [updatedAt |-> t])]

\* the profile of the minimal document updateLocationAndWeather and appendChatMessage of
\* copy A insert
ShellProfile(call) ==
    IF call.op = "update" THEN NullProfile
    ELSE LET profile == Or(OptGet(SampleEntry(Default(call.arg, Obj(EmptyObject))), "profile"),
                           Obj(EmptyObject))
         IN  IF hasProfileData(profile) THEN sanitizeProfile(profile.o, profile.o)
             ELSE NullProfile

\* the caller's code after the document is known to exist
Ensured(call, t) ==
    CASE call.op = "ensure" -> Done(call, "id")
      [] call.op = "update" -> Setting(call, t)
      [] OTHER -> Pushing(call, t)

\* the call record once the awaited operation has answered found (the document findOne
\* read) at clock reading t: the code from that await to the next one
Resume(call, found, t) ==
    CASE call.pc = "ensure.findOne" ->
           [call EXCEPT !.pc = "ensure.write",
                        !.req = IF found # NoDoc
                                THEN UpdateOneReq([profile |-> call.sp, updatedAt |-> call.t])
                                ELSE UpsertInsertReq(NewDoc(call.id, call.sp, call.t))]
      [] call.pc = "ensure.write" ->
           IF call.req.kind = "upsertBoth" /\ rejectsConflict THEN Done(call, "error")
           ELSE Ensured(call, t)
      [] call.pc = "findOne" ->
           IF found # NoDoc THEN Ensured(call, t)
           ELSE [call EXCEPT !.pc = "insert",
                             !.req = UpsertInsertReq(NewDoc(call.id, ShellProfile(call), t))]
      [] call.pc = "insert" -> Ensured(call, t)
      [] call.pc \in {"set", "push"} -> [call EXCEPT !.pc = "return", !.req = FindOneReq]
      [] OTHER -> Done(call, IF found = NoDoc THEN "null" ELSE "doc")

\* the call record of a call of op with arg, started at clock reading t while the callers
\* in rivals had calls in progress: the code up to the first await
StartCall(op, arg, rivals, t) ==
    LET call == [op |-> op, arg |-> arg, id |-> "u1", t |-> 0, sp |-> NullProfile,
                 pc |-> "start", req |-> NoReq, entries |-> <<>>, rivals |-> rivals,
                 res |-> "pending"]
        o == Default(arg, Obj(EmptyObject)).o
    IN  CASE op = "ensure" -> Ensuring(call, arg, t)
          [] op = "update" ->
               LET profile == Default(Get(o, "profile"), Obj(EmptyObject))
               IN  IF copy = "B" \/ hasProfileData(profile) THEN Ensuring(call, profile, t)
                   ELSE [call EXCEPT !.pc = "findOne", !.req = FindOneReq]
          [] OTHER ->
               IF copy = "B"
               THEN Ensuring(call,
                             Or(OptGet(SampleEntry(Default(arg, Obj(EmptyObject))), "profile"),
                                Obj(EmptyObject)), t)
               ELSE [call EXCEPT !.pc = "findOne", !.req = FindOneReq]

Running(p) == calls[p].pc \notin {"idle", "done"}

\* the collections the two callers can find: empty, or left by earlier calls at reading 0
PriorCollections ==
    LET empty == [u \in ValidIds |-> NoDoc]
    IN  {empty,
         updateLocationAndWeather(empty, Str("u1"),
                                  UpdateArg(FullProfile, RealLocation, RealWeather), 0).coll}
        \cup {appendChatMessage(empty, Str("u1"), Arr(Batch("users", k, 1)), 0).coll :
                  k \in {MaxPrior - 2, MaxPrior}}

\* the batches caller p appends: their messages are numbered from 10 * p + 1 on
ChatArgs(p) ==
    {Arr(Batch("users", SmallBatch, 10 * p + 1)),
     Arr(Batch("dialog", MaxBatch, 10 * p + 1)),
     Arr(Batch("gaps", SmallBatch + 1, 10 * p + 1)),
     Arr(Batch("void", 1, 10 * p + 1))}

StepUpdateArgs ==
    {UpdateArg(UNDEF, RealLocation, RealWeather), UpdateArg(FullProfile, RealLocation, UNDEF)}

InitSteps ==
    /\ copy \in {"A", "B"}
    /\ rejectsConflict \in (IF copy = "A" THEN {TRUE} ELSE BOOLEAN)
    /\ collection \in PriorCollections
    /\ prior = collection
    /\ calls = [p \in Procs |-> Idle]
    /\ now = 1
    /\ sent = [u \in ValidIds |-> 0]
    /\ last = [op |-> "none"]
    /\ WeatherIdle
    /\ OtpIdle

\* caller p calls op with arg: the call runs to its first await
Start(p, op, arg) ==
    /\ calls[p] = Idle
    /\ calls' = [calls EXCEPT ![p] = StartCall(op, arg, {q \in Procs : Running(q)}, now)]
    /\ UNCHANGED <<ctxVars, prior, now, weatherVars, otpVars>>

StartEnsure(p) == Start(p, "ensure", FullProfile)

StartUpdate(p, arg) == Start(p, "update", arg)

StartAppend(p, chatEntry) == Start(p, "append", chatEntry)

\* the operation caller p awaits reaches the server, and p runs to its next await
Storage(p, kinds) ==
    /\ Running(p)
    /\ calls[p].req.kind \in kinds
    /\ collection' = ApplyReq(calls[p].req, collection, calls[p].id)
    /\ calls' = [calls EXCEPT ![p] = Resume(@, findOne(collection, calls[p].id), now)]
    /\ UNCHANGED <<copy, rejectsConflict, sent, last, prior, now, weatherVars, otpVars>>

StorageFindOne(p) == Storage(p, {"findOne"})

StorageUpdateOne(p) == Storage(p, {"updateOne"})

StorageUpsert(p) == Storage(p, {"upsertInsert", "upsertBoth", "upsertSet"})

StoragePush(p) == Storage(p, {"push"})

\* time passes between two storage operations
TickSteps ==
    /\ now < MaxClock + 1
    /\ now' = now + 1
    /\ UNCHANGED <<ctxVars, weatherVars, otpVars, callVars>>

NextSteps ==
    \/ \E p \in Procs : StartEnsure(p)
    \/ \E p \in Procs, arg \in StepUpdateArgs : StartUpdate(p, arg)
    \/ \E p \in Procs : \E chatEntry \in ChatArgs(p) : StartAppend(p, chatEntry)
    \/ \E p \in Procs : StorageFindOne(p)
    \/ \E p \in Procs : StorageUpdateOne(p)
    \/ \E p \in Procs : StorageUpsert(p)
    \/ \E p \in Procs : StoragePush(p)
    \/ TickSteps

SpecSteps == InitSteps /\ [][NextSteps]_vars

-----------------------------------------------------------------------------
(* Claims about the chat window, checked under SpecChat *)

\* the entries of a chatEntry argument, as the caller sees them
SuppliedEntries(chatEntry) ==
    IF chatEntry.t = "array" THEN chatEntry.items
    ELSE IF chatEntry.t = "undefined" THEN <<>> ELSE <<chatEntry>>

\* an entry whose message, trimmed, is non-empty
HasText(entry) ==
    /\ "message" \in DOMAIN entry.o
    /\ \E i \in 1..Len(entry.o.message.c) : entry.o.message.c[i] # " "

Min(a, b) == IF a <= b THEN a ELSE b

\* C1: every stored chats sequence has at most 5 entries, in every reachable state
\* (so right after every append, whatever the batch size).
C1_ChatsAtMostFive ==
    \A u \in ValidIds : collection[u] # NoDoc => Len(collection[u].chats) <= 5

\* C1 witness: a single batch of more than 5 messages with text was appended and 5 are stored.
C1_Witness ==
    /\ last.op = "appendChatMessage"
    /\ last.res.kind = "doc"
    /\ last.arg.t = "array"
    /\ Len(last.arg.items) > 5
    /\ \A i \in 1..Len(last.arg.items) : HasText(last.arg.items[i])
    /\ Len(collection[last.id].chats) = 5

\* C2: after completed appendChatMessage calls that supplied M messages with text, the
\* stored chats are the last min(M, 5) of them, in the order supplied, each with the text
\* it was supplied with (the n-th supplied message is MessageChar(n), possibly padded).
C2_LastFiveInAppendOrder ==
    \A u \in ValidIds :
        collection[u] # NoDoc =>
            LET chats == collection[u].chats
                k == Min(sent[u], 5)
            IN  /\ Len(chats) = k
                /\ \A i \in 1..k :
                       Trim(chats[i].message) = <<MessageChar(sent[u] - k + i)>>

\* C2 witness: more than 5 messages were supplied over several calls, and a stored entry
\* carries a caller's timestamp older than the timestamp of an entry stored before it.
C2_Witness ==
    /\ last.op = "appendChatMessage"
    /\ last.res.kind = "doc"
    /\ sent[last.id] > 5
    /\ Len(SuppliedEntries(last.arg)) < sent[last.id]
    /\ \E i, j \in 1..Len(collection[last.id].chats) :
           /\ i < j
           /\ collection[last.id].chats[i].timestamp.ms > collection[last.id].chats[j].timestamp.ms

\* C7: appendChatMessage for an existing user with only empty or whitespace-only messages
\* returns the document without an error and leaves chats and updatedAt as they were.
C7_BlankAppendIsNoOp ==
    [][\A u \in ValidIds :
           (/\ last'.op = "appendChatMessage"
            /\ last'.id = u
            /\ collection[u] # NoDoc
            /\ Len(SuppliedEntries(last'.arg)) > 0
            /\ \A i \in 1..Len(SuppliedEntries(last'.arg)) :
                   ~HasText(SuppliedEntries(last'.arg)[i]))
           => /\ last'.res.kind = "doc"
              /\ collection'[u] # NoDoc
              /\ collection'[u].chats = collection[u].chats
              /\ collection'[u].updatedAt = collection[u].updatedAt]_vars

\* the role and text under which a supplied entry is to be stored
Normalized(entry) ==
    [role |-> IF "role" \in DOMAIN entry.o /\ entry.o.role = Str("assistant")
              THEN "assistant" ELSE "user",
     message |-> entry.o.message.c]

\* the role and text of stored chat entries
RoleAndText(chats) ==
    [i \in 1..Len(chats) |-> [role |-> chats[i].role, message |-> chats[i].message]]

\* the supplied entries whose trimmed message is non-empty, as they are to be stored
Storable(chatEntry) ==
    LET kept == SelectSeq(SuppliedEntries(chatEntry), HasText)
    IN  [i \in 1..Len(kept) |-> Normalized(kept[i])]

\* C26: every stored chat entry has role user or assistant and a message that is
\* non-empty when trimmed; and an appendChatMessage call stores exactly its entries with
\* such a message, those with a role other than assistant under role user, behind the
\* entries stored before, of which only the oldest are evicted: an entry without text is
\* not stored and takes no place in the window.
C26_StoredEntriesHaveRoleAndText ==
    [][\A u \in ValidIds :
           /\ collection'[u] # NoDoc =>
                  \A i \in 1..Len(collection'[u].chats) :
                      /\ collection'[u].chats[i].role \in {"user", "assistant"}
                      /\ Len(Trim(collection'[u].chats[i].message)) > 0
           /\ (/\ last' # last
               /\ last'.op = "appendChatMessage"
               /\ last'.id = u
               /\ last'.res.kind = "doc")
              => RoleAndText(collection'[u].chats)
                     = SliceLast(RoleAndText(IF collection[u] = NoDoc THEN <<>>
                                             ELSE collection[u].chats)
                                     \o Storable(last'.arg), 5)]_vars

\* C26's case: onto a full window, a call appended a batch holding an entry of role
\* system with text and entries without text
C26_Witness ==
    /\ last.op = "appendChatMessage"
    /\ last.res.kind = "doc"
    /\ last.existed
    /\ Len(collection[last.id].chats) = 5
    /\ \E i \in 1..Len(SuppliedEntries(last.arg)) :
           /\ HasText(SuppliedEntries(last.arg)[i])
           /\ SuppliedEntries(last.arg)[i].o.role = Str("system")
    /\ \E i \in 1..Len(SuppliedEntries(last.arg)) : ~HasText(SuppliedEntries(last.arg)[i])
    /\ Len(Storable(last.arg)) < 5
    /\ sent[last.id] > 5 + Len(Storable(last.arg))

-----------------------------------------------------------------------------
(* Claims about profile, location and weather, checked under SpecContext *)

\* the location, weather and profile a caller passed to updateLocationAndWeather
PassedLocation(arg) == IF arg.t = "object" THEN Get(arg.o, "location") ELSE UNDEF

PassedWeather(arg) == IF arg.t = "object" THEN Get(arg.o, "weather") ELSE UNDEF

\* the profile fields a caller of ensureUserContext supplied
SuppliedFields(profile) == IF profile.t = "object" THEN DOMAIN profile.o ELSE {}

\* C3: once the stored weather is non-null, updateLocationAndWeather with the weather
\* omitted or empty leaves the stored weather snapshot unchanged (stated for copy A; copy
\* B calls the same sanitizeWeather).
C3_EmptyWeatherKeepsWeather ==
    [][\A u \in ValidIds :
           (/\ copy = "A"
            /\ last'.op = "updateLocationAndWeather"
            /\ last'.id = u
            /\ collection[u] # NoDoc
            /\ collection[u].weather # NULL
            /\ PassedWeather(last'.arg) \in EmptyWeatherArgs)
           => /\ collection'[u] # NoDoc
              /\ collection'[u].weather = collection[u].weather]_vars

C5_EnsureKeepsChatsLocationWeather ==
    [][\A u \in ValidIds :
           (/\ last'.op = "ensureUserContext"
            /\ last'.id = u
            /\ collection[u] # NoDoc)
           => /\ collection'[u] # NoDoc
              /\ collection'[u].chats = collection[u].chats
              /\ collection'[u].location = collection[u].location
              /\ collection'[u].weather = collection[u].weather]_vars

\* C5 witness: ensureUserContext completed on an existing document that holds chats, a
\* location and a weather snapshot, at a clock reading later than theirs.
C5_Witness ==
    /\ last.op = "ensureUserContext"
    /\ last.res.kind = "id"
    /\ last.existed
    /\ collection[last.id].chats # <<>>
    /\ collection[last.id].location # NULL
    /\ collection[last.id].weather # NULL
    /\ collection[last.id].location.updatedAt < now
    /\ collection[last.id].updatedAt = now

\* C6: ensureUserContext on an existing document with a partial profile keeps every
\* profile field the call did not supply (stated for copy A; copy B writes the same
\* sanitizeProfile(profile, profile) with $set).
C6_PartialProfileKeepsOtherFields ==
    [][\A u \in ValidIds :
           (/\ copy = "A"
            /\ last'.op = "ensureUserContext"
            /\ last'.id = u
            /\ collection[u] # NoDoc)
           => /\ collection'[u] # NoDoc
              /\ \A k \in ProfileFields \ SuppliedFields(last'.arg) :
                     collection'[u].profile[k] = collection[u].profile[k]]_vars

\* C21: a call with a userId that normalizeObjectId rejects creates no document and
\* changes none, and when the call is ensureUserContext it fails with an error.
C21_BadIdFailsAndWritesNothing ==
    [][(last' # last /\ last'.op # "none" /\ last'.id = "") =>
           /\ collection' = collection
           /\ last'.op = "ensureUserContext" => last'.res.kind = "error"]_vars

\* the profile stored for a supplied one: the supplied fields, null for every other field
AsSupplied(profile) ==
    [k \in ProfileFields |->
        IF k \in SuppliedFields(profile) THEN profile.o[k] ELSE NULL]

\* C23: a call with a valid id for a user with no document leaves a document for that
\* user. After ensureUserContext its profile holds the supplied fields and null for
\* every missing one, location and weather are null and chats is empty; after
\* updateLocationAndWeather and appendChatMessage the document exists and carries the
\* change of the call (the location and weather passed, the entries kept).
C23_AbsentDocumentIsCreated ==
    [][\A u \in ValidIds :
           (last' # last /\ last'.id = u /\ collection[u] = NoDoc) =>
               /\ last'.op = "ensureUserContext" =>
                      /\ collection'[u] # NoDoc
                      /\ collection'[u].userId = u
                      /\ collection'[u].profile = AsSupplied(last'.arg)
                      /\ collection'[u].location = NULL
                      /\ collection'[u].weather = NULL
                      /\ collection'[u].chats = <<>>
               /\ last'.op = "updateLocationAndWeather" =>
                      /\ collection'[u] # NoDoc
                      /\ collection'[u].chats = <<>>
                      /\ PassedLocation(last'.arg) = RealLocation =>
                             /\ collection'[u].location # NULL
                             /\ collection'[u].location.address = Str("Village Shirur")
                      /\ PassedWeather(last'.arg) = RealWeather =>
                             /\ collection'[u].weather # NULL
                             /\ collection'[u].weather.temperature = Num(28)
               /\ last'.op = "appendChatMessage" =>
                      /\ collection'[u] # NoDoc
                      /\ collection'[u].location = NULL
                      /\ collection'[u].weather = NULL
                      /\ Len(collection'[u].chats)
                             = Min(5, Cardinality({i \in DOMAIN SuppliedEntries(last'.arg) :
                                                       HasText(SuppliedEntries(last'.arg)[i])}))]_vars

\* the call of the last step carried no profile: updateLocationAndWeather without a
\* profile, or appendChatMessage with entries that have none
CarriedNoProfile(call) ==
    \/ /\ call.op = "updateLocationAndWeather"
       /\ (call.arg.t = "object" => Get(call.arg.o, "profile") = UNDEF)
    \/ /\ call.op = "appendChatMessage"
       /\ \A i \in 1..Len(SuppliedEntries(call.arg)) :
              "profile" \notin DOMAIN SuppliedEntries(call.arg)[i].o

\* C27: updateLocationAndWeather without profile data and appendChatMessage with entries
\* that carry no profile leave the stored profile of an existing user as it is, and for a
\* user with no document create one whose profile fields are all null.
C27_NoProfileKeepsProfile ==
    [][\A u \in ValidIds :
           (last' # last /\ last'.id = u /\ CarriedNoProfile(last')) =>
               IF collection[u] # NoDoc
               THEN collection'[u] # NoDoc /\ collection'[u].profile = collection[u].profile
               ELSE collection'[u] # NoDoc /\ collection'[u].profile = NullProfile]_vars

-----------------------------------------------------------------------------
(* Claims about GET /weather, checked under SpecWeather *)

\* the cache key of the request of the last handler step
LastKey == CacheKey(wlast.query.lat, wlast.query.lon)

\* a payload a client can use: the weather fields are all there
Usable(response) ==
    /\ response.status = 200
    /\ {"temperature", "humidity", "windSpeed", "precipitationProbability", "weatherCode",
        "condition", "advisory"} \subseteq DOMAIN response.data

\* C8: every GET /weather request that supplies both lat and lon is answered with a
\* success response carrying a usable payload, whatever the cache holds and whatever the
\* upstream call does or whether credentials are configured; none is answered with an
\* error response.
C8_ValidRequestAlwaysSucceeds ==
    wlast.event = "answered" => Usable(wlast.response)

\* C9: when the upstream fetch fails (rate limit, other non-2xx status, transport error):
\* if an earlier fetch for the bucket succeeded, the response carries exactly the cached
\* payload of that fetch with cached=true and stale=true; if none ever succeeded, it
\* carries the fixed fallback payload with fallback=true.
C9_FailureServesStaleOrFallback ==
    (wlast.event = "answered" /\ wlast.upstream \in UpstreamFailures) =>
        IF fetched[LastKey] # NoEntry
        THEN wlast.response =
                 Success(Spread(fetched[LastKey].data, [cached |-> TRUE, stale |-> TRUE]))
        ELSE wlast.response = Success(FallbackData) /\ wlast.response.data.fallback

\* a step in which a request with both coordinates arrives
Arrives ==
    /\ wlast'.flip # wlast.flip
    /\ \/ wlast'.event = "fetching"
       \/ wlast'.event = "answered" /\ wlast'.upstream = "none"

\* C10: once the provider has answered a request for a bucket at time t (the last such
\* answer), a request whose coordinates round to the same bucket and that arrives before
\* t + 10 minutes is served the identical payload with cached=true, without an upstream
\* call; one that arrives at t + 10 minutes or later calls the provider.
C10_FreshServedFromCache ==
    [][(Arrives /\ fetched[LastKey'] # NoEntry) =>
          IF now - fetched[LastKey'].at < WEATHER_CACHE_TTL
          THEN /\ wlast'.event = "answered"
               /\ wlast'.response =
                      Success(Spread(fetched[LastKey'].data, [cached |-> TRUE]))
               /\ inflight' = inflight
               /\ weatherCache' = weatherCache
          ELSE /\ wlast'.event = "fetching"
               /\ BagCardinality(inflight') = BagCardinality(inflight) + 1]_vars

\* a request for other coordinates of the bucket was served from the cache in the last
\* minute of the entry's life
C10_Witness ==
    /\ wlast.event = "answered"
    /\ wlast.upstream = "none"
    /\ fetched[LastKey] # NoEntry
    /\ wlast.query # fetched[LastKey].query
    /\ wlast.at - fetched[LastKey].at = WEATHER_CACHE_TTL - 1
    /\ wlast.response.data.cached
    /\ "stale" \notin DOMAIN wlast.response.data

\* C17: when no API key is configured and the bucket has no fresh entry, a cached payload
\* is served with cached=true and stale=true if one exists, and the fixed fallback
\* payload with fallback=true if none exists.
C17_NoKeyServesStaleOrFallback ==
    (wlast.event = "answered" /\ wlast.upstream = "none" /\ ~apiKey) =>
        wlast.response =
            IF weatherCache[LastKey] # NoEntry
            THEN Success(Spread(weatherCache[LastKey].data,
                                [cached |-> TRUE, stale |-> TRUE]))
            ELSE Success(FallbackData)

\* C18: the upstream call is bounded by a timeout: every handler suspended at the
\* upstream call is eventually resumed and answers, even if the provider never does.
C18_SuspendedHandlerAnswers ==
    \A n \in 1..MaxInFlight :
        (BagCardinality(inflight) = n) ~> (BagCardinality(inflight) < n)

\* the category an advisory text stands for
AdvisoryCategory(advisory) ==
    CASE advisory = "High chance of rain. Postpone spraying activities. Good time for indoor planning."
           -> "postpone-spraying"
      [] advisory = "Moderate rain expected. Good time for irrigation planning and soil preparation."
           -> "irrigation-planning"
      [] advisory = "High temperature. Ensure adequate irrigation. Avoid midday fieldwork."
           -> "heat-stress"
      [] advisory = "Cool weather. Monitor frost-sensitive crops. Good for harvesting."
           -> "frost-watch"
      [] advisory = "Windy conditions. Avoid pesticide application. Secure farm equipment."
           -> "wind-hazard"
      [] advisory = "Favorable conditions for farming activities. Plan your fieldwork accordingly."
           -> "favorable"
      [] OTHER -> "none"

\* the priority chain, with the lowest precipitation probability that gives
\* irrigation-planning as a parameter
FirstMatch(lowest, precipitation, temperature, wind) ==
    IF precipitation > 70 THEN "postpone-spraying"
    ELSE IF precipitation >= lowest THEN "irrigation-planning"
    ELSE IF temperature > 35 THEN "heat-stress"
    ELSE IF temperature < 15 THEN "frost-watch"
    ELSE IF wind > 20 THEN "wind-hazard"
    ELSE "favorable"

\* the last request was answered from a 2xx answer of the provider
FreshlyAnswered ==
    wlast.event = "answered" /\ wlast.upstream = "ok" /\ wlast.response.status = 200

\* C22, as stated: the advisory of a freshly fetched payload is the first match of the
\* chain > 70 postpone-spraying, 40 to 70 (40 included) irrigation-planning, > 35
\* heat-stress, < 15 frost-watch, wind > 20 wind-hazard, else favorable, for all
\* whole-number readings.
C22_AdvisoryFirstMatchFrom40 ==
    FreshlyAnswered =>
        LET data == wlast.response.data
        IN  AdvisoryCategory(data.advisory)
                = FirstMatch(40, data.precipitationProbability, data.temperature,
                             data.windSpeed)

\* C22, amended: the same chain with irrigation-planning for a precipitation probability
\* above 40 and at most 70; at exactly 40 the chain goes on to the temperature tests.
C22_AdvisoryFirstMatchAbove40 ==
    FreshlyAnswered =>
        LET data == wlast.response.data
        IN  AdvisoryCategory(data.advisory)
                = FirstMatch(41, data.precipitationProbability, data.temperature,
                             data.windSpeed)

\* C22's case: a payload at the boundaries 70 and 35 with a wind above 20, whose advisory
\* is the irrigation-planning one
C22_Witness ==
    /\ FreshlyAnswered
    /\ wlast.response.data.precipitationProbability = 70
    /\ wlast.response.data.temperature = 36
    /\ wlast.response.data.windSpeed = 21
    /\ AdvisoryCategory(wlast.response.data.advisory) = "irrigation-planning"

\* a payload without the flags that tell how it was served
Payload(data) == [k \in DOMAIN data \ {"cached", "stale", "fallback"} |-> data[k]]

\* C25: a request answered less than 10 minutes after the provider's last answer for its
\* bucket observes the payload of that answer, also when it was in flight while that
\* answer came.
C25_SameBucketSamePayload ==
    [][(/\ wlast'.flip # wlast.flip
        /\ wlast'.event = "answered"
        /\ wlast'.response.status = 200
        /\ fetched[LastKey'] # NoEntry
        /\ now - fetched[LastKey'].at < WEATHER_CACHE_TTL)
       => Payload(wlast'.response.data) = Payload(fetched[LastKey'].data)]_vars

\* the response carries a stale or the fallback payload
StaleOrFallbackServed(response) ==
    /\ response.status = 200
    /\ \/ "stale" \in DOMAIN response.data
       \/ "fallback" \in DOMAIN response.data

\* in every step the cache changes only by the entry of the bucket a successful upstream
\* fetch was made for, which holds the fetched payload and the reading of that moment;
\* no entry disappears and no entry holds the fallback payload
CacheWrittenByFetchOnly ==
    /\ weatherCache' # weatherCache =>
           /\ wlast'.flip # wlast.flip
           /\ wlast'.event = "answered"
           /\ wlast'.upstream = "ok"
           /\ \A k \in CacheKeys \ {LastKey'} : weatherCache'[k] = weatherCache[k]
           /\ weatherCache'[LastKey'] =
                  [timestamp |-> now, data |-> Payload(wlast'.response.data)]
    /\ \A k \in CacheKeys :
           /\ weatherCache[k] # NoEntry => weatherCache'[k] # NoEntry
           /\ weatherCache'[k] # NoEntry => "fallback" \notin DOMAIN weatherCache'[k].data

\* C28: a cache entry is created or overwritten only by a successful upstream fetch for
\* its bucket, every other answer leaves the whole cache as it is, the fallback payload
\* is never cached and no entry is removed; and the request that comes next for a bucket
\* after a stale or fallback response for it calls the provider again.
C28_CacheWrittenByFetchOnly ==
    [][/\ CacheWrittenByFetchOnly
       /\ (/\ wlast.event = "answered"
           /\ StaleOrFallbackServed(wlast.response)
           /\ Arrives
           /\ LastKey' = LastKey)
          => wlast'.event = "fetching"]_vars

-----------------------------------------------------------------------------
(* Claims about two callers at once, checked under SpecSteps *)

\* caller p's appendChatMessage call has returned the document
Appended(p) == calls[p].pc = "done" /\ calls[p].op = "append" /\ calls[p].res = "doc"

\* the chats the two callers found stored
PriorChats == IF prior["u1"] = NoDoc THEN <<>> ELSE prior["u1"].chats

\* C15: once two appendChatMessage calls on the same user have both returned, whatever
\* the order in which their storage operations reached the server, the stored chats has
\* at most 5 entries and is the last 5 of the prior chats followed by the two batches (as
\* the calls mapped and filtered them) in one of the two orders: nothing is lost except
\* by eviction of the oldest entries, and neither batch is split by the other.
C15_ConcurrentAppendsSerialize ==
    (\A p \in Procs : Appended(p)) =>
        LET chats == collection["u1"].chats
        IN  /\ Len(chats) <= 5
            /\ \/ chats = SliceLast(PriorChats \o calls[1].entries \o calls[2].entries, 5)
               \/ chats = SliceLast(PriorChats \o calls[2].entries \o calls[1].entries, 5)

\* C15's case: both calls returned, one started while the other was suspended, both
\* pushed entries, chats were stored before and the oldest entries were evicted
C15_Witness ==
    /\ \A p \in Procs : Appended(p) /\ calls[p].entries # <<>>
    /\ \E p \in Procs : calls[p].rivals # {}
    /\ PriorChats # <<>>
    /\ Len(PriorChats) + Len(calls[1].entries) + Len(calls[2].entries) > 5
    /\ Len(calls[1].entries) < 5 /\ Len(calls[2].entries) < 5

\* the fields of a context document that carry content
ContentFields == {"profile", "location", "weather", "chats"}

\* C20: in every step of any interleaving of ensureUserContext, updateLocationAndWeather
\* and appendChatMessage calls, a document that exists keeps existing with the createdAt
\* it has, a document that is inserted gets createdAt and updatedAt, and a step that
\* changes profile, location, weather or chats is a storage operation that also sets
\* updatedAt, to the reading its caller took.
C20_CreatedOnceUpdatedAlways ==
    [][\A u \in ValidIds :
          /\ collection[u] # NoDoc =>
                 /\ collection'[u] # NoDoc
                 /\ collection'[u].createdAt = collection[u].createdAt
          /\ (collection[u] = NoDoc /\ collection'[u] # NoDoc) =>
                 {"createdAt", "updatedAt"} \subseteq DOMAIN collection'[u]
          /\ (/\ collection[u] # NoDoc
              /\ \E k \in ContentFields : collection'[u][k] # collection[u][k]) =>
                 \E p \in Procs :
                     /\ calls'[p] # calls[p]
                     /\ "updatedAt" \in MatchedFields(calls[p].req)
                     /\ collection'[u].updatedAt = calls[p].req.set.updatedAt]_vars

\* C20's case: a document older than the clock reading, whose content a call that
\* started while another was suspended has changed
C20_Witness ==
    \E u \in ValidIds :
        /\ collection[u] # NoDoc
        /\ prior[u] # NoDoc
        /\ collection[u].createdAt < now
        /\ collection[u].updatedAt > collection[u].createdAt
        /\ \E k \in ContentFields : collection[u][k] # prior[u][k]
        /\ \E p \in Procs : calls[p].pc = "done" /\ calls[p].rivals # {}

\* the collection after the call of caller p ran alone on coll, as one step
RanAlone(p, coll) ==
    CASE calls[p].op = "ensure" -> ensureUserContext(coll, Str("u1"), calls[p].arg, 0).coll
      [] calls[p].op = "update" ->
           updateLocationAndWeather(coll, Str("u1"), calls[p].arg, 0).coll
      [] OTHER -> appendChatMessage(coll, Str("u1"), calls[p].arg, 0).coll

\* a snapshot without the reading of the clock it was stored at
Undated(snapshot) ==
    IF snapshot = NULL THEN NULL
    ELSE [k \in DOMAIN snapshot \ {"updatedAt"} |-> snapshot[k]]

\* what a document holds, apart from the readings of the clock
Content(doc) ==
    IF doc = NoDoc THEN doc
    ELSE [profile |-> doc.profile, location |-> Undated(doc.location),
          weather |-> Undated(doc.weather),
          chats |-> [i \in 1..Len(doc.chats) |->
                        [role |-> doc.chats[i].role, message |-> doc.chats[i].message]]]

\* C24: once two calls on one user, one of them ensureUserContext, have both returned
\* without an error, whatever the order of their storage operations, the document holds
\* what it would hold had the two calls run one after the other, in one of the two orders.
C24_InterleavingsLinearize ==
    (/\ \A p \in Procs : calls[p].pc = "done" /\ calls[p].res # "error"
     /\ \E p \in Procs : calls[p].op = "ensure")
    => \/ Content(collection["u1"]) = Content(RanAlone(2, RanAlone(1, prior))["u1"])
       \/ Content(collection["u1"]) = Content(RanAlone(1, RanAlone(2, prior))["u1"])

-----------------------------------------------------------------------------
(* Claims about the OTP endpoints, checked under SpecOtp *)

\* a step in which a verify-otp handler looks up the record of address e and decides
VerifyStep(e) ==
    /\ olast'.flip # olast.flip
    /\ olast'.op = "verify-otp"
    /\ "found" \in DOMAIN olast'
    /\ olast'.email = Text(e)

\* the record of e is stored and not expired at the moment of the step
Outstanding(e) == otpStore[e] # NoOtp /\ now <= otpStore[e].expiresAt

\* a step in which a send-otp handler for address e answers with this status
SendAnswers(e, status) ==
    /\ olast'.flip # olast.flip
    /\ olast'.op = "send-otp"
    /\ olast'.event = "answered"
    /\ olast'.email = Text(e)
    /\ olast'.status = status

\* a step in which a send-otp handler stores a code for address e
SendStores(e) ==
    /\ olast'.flip # olast.flip
    /\ olast'.op = "send-otp"
    /\ olast'.event = "stored"
    /\ olast'.email = Text(e)

\* C11 as stated: the third consecutive verify-otp with a wrong code, before expiry,
\* fails with TOO_MANY_ATTEMPTS and clears the record.
C11_ThirdWrongCodeExhausts ==
    [][\A e \in Emails :
          (VerifyStep(e) /\ Outstanding(e) /\ otpStore[e].attempts = 2
             /\ olast'.otp # otpStore[e].otp)
          => (olast'.code = "TOO_MANY_ATTEMPTS" /\ otpStore'[e] = NoOtp)]_vars

\* C11 amended: the third consecutive verify-otp with a wrong code, before expiry, fails
\* with INVALID_OTP (0 attempts remaining) and leaves the record with attempts = 3; the
\* next verify-otp before expiry, with whatever code, fails with TOO_MANY_ATTEMPTS and
\* clears the record, and a verify-otp that finds no record fails with OTP_NOT_FOUND.
C11_FourthCallExhausts ==
    [][\A e \in Emails :
          /\ (VerifyStep(e) /\ Outstanding(e) /\ otpStore[e].attempts = 2
                /\ olast'.otp # otpStore[e].otp)
             => /\ olast'.code = "INVALID_OTP"
                /\ olast'.remaining = 0
                /\ otpStore'[e] = [otpStore[e] EXCEPT !.attempts = 3]
          /\ (VerifyStep(e) /\ Outstanding(e) /\ otpStore[e].attempts = 3)
             => (olast'.code = "TOO_MANY_ATTEMPTS" /\ otpStore'[e] = NoOtp)
          /\ (VerifyStep(e) /\ otpStore[e] = NoOtp)
             => (olast'.code = "OTP_NOT_FOUND" /\ otpStore'[e] = NoOtp)]_vars

\* after three charged attempts the code originally issued was refused and the record
\* cleared
C11_Witness ==
    /\ olast.event = "answered"
    /\ olast.op = "verify-otp"
    /\ olast.code = "TOO_MANY_ATTEMPTS"
    /\ olast.found.attempts = 3
    /\ olast.otp = olast.found.otp
    /\ otpStore[olast.email.c] = NoOtp

\* C12: a verify-otp call made when now > expiresAt of the stored record fails with
\* OTP_EXPIRED and deletes the record, whatever the submitted code and the attempt count;
\* a call made at now <= expiresAt is not rejected as expired.
C12_ExpiredAfterDeadlineOnly ==
    [][\A e \in Emails :
          (VerifyStep(e) /\ otpStore[e] # NoOtp)
          => IF now > otpStore[e].expiresAt
             THEN olast'.event = "answered" /\ olast'.code = "OTP_EXPIRED"
                  /\ otpStore'[e] = NoOtp
             ELSE olast'.event = "verified" \/ olast'.code # "OTP_EXPIRED"]_vars

\* the stored code itself was refused as expired, and the record is gone
C12_Witness ==
    /\ olast.event = "answered"
    /\ olast.op = "verify-otp"
    /\ olast.code = "OTP_EXPIRED"
    /\ olast.otp = olast.found.otp
    /\ now > olast.found.expiresAt
    /\ otpStore[olast.email.c] = NoOtp

\* C13: a verify-otp call with the stored code on an unexpired record with fewer than 3
\* used attempts passes the verification and deletes the record; a further verify-otp
\* for the address before a new send-otp fails with OTP_NOT_FOUND; each issued code is
\* matched at most once, also while the handler of the first match is still suspended.
C13_CodeVerifiesOnce ==
    [][\A e \in Emails :
          /\ (VerifyStep(e) /\ Outstanding(e) /\ otpStore[e].attempts < MAX_ATTEMPTS
                /\ olast'.otp = otpStore[e].otp)
             => (olast'.event = "verified" /\ otpStore'[e] = NoOtp)
          /\ (VerifyStep(e) /\ otpStore[e] = NoOtp) => olast'.code = "OTP_NOT_FOUND"
          /\ matched'[e] <= 1]_vars

\* the code that was matched is submitted again while the first handler is suspended at
\* the users collection, and is answered OTP_NOT_FOUND
C13_Witness ==
    /\ olast.event = "answered"
    /\ olast.op = "verify-otp"
    /\ olast.code = "OTP_NOT_FOUND"
    /\ olast.email \in {Text(e) : e \in Emails}
    /\ matched[olast.email.c] = 1
    /\ \E handler \in BagToSet(verifying) :
           handler.email = olast.email /\ handler.otp = olast.otp

\* C14 as stated: whenever send-otp for a well-formed email fails with a delivery error,
\* because the mailer is not configured (503) or because the send call throws (500), the
\* record {code, expiresAt, attempts = 0} is stored and the failure does not remove it.
C14_DeliveryFailureKeepsRecord ==
    [][\A e \in Emails :
          /\ SendAnswers(e, 503)
             => /\ otpStore'[e] # NoOtp
                /\ otpStore'[e].attempts = 0
                /\ otpStore'[e].expiresAt = now + OTP_TTL
          /\ SendStores(e)
             => otpStore'[e] = [otp |-> olast'.otp, expiresAt |-> now + OTP_TTL,
                                attempts |-> 0]
          /\ SendAnswers(e, 500) => otpStore' = otpStore]_vars

\* C14 amended: when the send call throws (500), the record {code, expiresAt = now + 10
\* minutes, attempts = 0} was stored before the dispatch and the failure leaves the store
\* as it is; when the mailer is not configured the request is refused (503) before a code
\* is generated, and the store is left as it is (no record is stored).
C14_ThrownSendKeepsRecord ==
    [][\A e \in Emails :
          /\ SendAnswers(e, 503) => (otpStore' = otpStore /\ mails' = mails)
          /\ SendStores(e)
             => otpStore'[e] = [otp |-> olast'.otp, expiresAt |-> now + OTP_TTL,
                                attempts |-> 0]
          /\ SendAnswers(e, 500) => otpStore' = otpStore]_vars

\* the dispatch failed and the record stored for it is still there, uncharged
C14_Witness ==
    /\ olast.event = "answered"
    /\ olast.op = "send-otp"
    /\ olast.status = 500
    /\ mails = EmptyBag
    /\ otpStore[olast.email.c] # NoOtp
    /\ otpStore[olast.email.c].attempts = 0

\* C16: every verify-otp answered INVALID_OTP read the attempt count all earlier
\* INVALID_OTP answers for the record had left (no two read the same count), raised the
\* stored count by exactly one, and at most 3 are answered INVALID_OTP per record.
C16_AttemptCountingAtomic ==
    [][\A e \in Emails :
          (VerifyStep(e) /\ olast'.event = "answered" /\ olast'.code = "INVALID_OTP")
          => /\ otpStore[e] # NoOtp
             /\ olast'.found.attempts = charged[e]
             /\ otpStore'[e] # NoOtp
             /\ otpStore'[e].attempts = otpStore[e].attempts + 1
             /\ charged'[e] = otpStore'[e].attempts
             /\ charged'[e] <= MAX_ATTEMPTS]_vars

\* the third wrong code was charged while a send-otp handler was suspended
C16_Witness ==
    /\ olast.event = "answered"
    /\ olast.op = "verify-otp"
    /\ olast.code = "INVALID_OTP"
    /\ charged[olast.email.c] = MAX_ATTEMPTS
    /\ otpStore[olast.email.c].attempts = MAX_ATTEMPTS
    /\ mails # EmptyBag

\* C19: a send-otp for an address replaces whatever record the address has by one
\* holding the new code, expiresAt = now + 10 minutes and attempts = 0; from then on a
\* submitted code other than the new one does not verify.
C19_SendReplacesRecord ==
    [][\A e \in Emails :
          /\ SendStores(e)
             => otpStore'[e] = [otp |-> olast'.otp, expiresAt |-> now + OTP_TTL,
                                attempts |-> 0]
          /\ (VerifyStep(e) /\ olast'.event = "verified")
             => (otpStore[e] # NoOtp /\ olast'.otp = otpStore[e].otp)]_vars

\* a record with charged attempts and another code was replaced at a later time
C19_Witness ==
    /\ olast.event = "stored"
    /\ olast.replaced # NoOtp
    /\ olast.replaced.otp # olast.otp
    /\ olast.replaced.attempts > 0
    /\ olast.replaced.expiresAt < otpStore[olast.email.c].expiresAt
    /\ otpStore[olast.email.c] =
           [otp |-> olast.otp, expiresAt |-> now + OTP_TTL, attempts |-> 0]

\* C29: the attempt count of a stored record is within 0..3; at most 3 submitted codes
\* are compared with one issued code (mismatches and the match together); a verify-otp
\* call passes only when, at that moment, a record is stored for the address, now is not
\* after expiresAt, attempts is below 3 and the submitted code is the stored one; and
\* once 3 mismatches are charged no call passes until send-otp stores a new code.
C29_AtMostThreeComparisons ==
    [][\A e \in Emails :
          /\ otpStore'[e] # NoOtp => otpStore'[e].attempts \in 0..3
          /\ charged'[e] + matched'[e] <= 3
          /\ (VerifyStep(e) /\ olast'.event = "verified")
             => /\ otpStore[e] # NoOtp
                /\ now <= otpStore[e].expiresAt
                /\ otpStore[e].attempts < 3
                /\ olast'.otp = otpStore[e].otp
          /\ (VerifyStep(e) /\ charged[e] = 3) => olast'.event # "verified"]_vars

\* the issued code passed as the third code compared, after two mismatches, at the last
\* moment before expiry
C29_Witness ==
    /\ olast.event = "verified"
    /\ olast.found.attempts = 2
    /\ olast.otp = olast.found.otp
    /\ now = olast.found.expiresAt
    /\ charged[olast.email.c] = 2
    /\ matched[olast.email.c] = 1

\* a step in which a verify-otp handler that passed the OTP checks is answered that a
\* signup needs a name
NameRequired(e) ==
    /\ olast'.flip # olast.flip
    /\ olast'.op = "verify-otp"
    /\ olast'.event = "answered"
    /\ olast'.email = Text(e)
    /\ "message" \in DOMAIN olast'

\* C30: a verify-otp call that matches deletes the OTP record in that step, before the
\* users collection is read. When the address has no user and no name was supplied, the
\* call is answered 400 VALIDATION_ERROR and no user is created (a user is only ever
\* created with a name); and from the match until send-otp stores a new code there is no
\* record, so every verify-otp for the address, the same code with a name included, is
\* answered OTP_NOT_FOUND.
C30_MatchConsumesBeforeBranch ==
    [][\A e \in Emails :
          /\ (VerifyStep(e) /\ olast'.event = "verified") => otpStore'[e] = NoOtp
          /\ NameRequired(e)
             => /\ olast'.status = 400
                /\ olast'.code = "VALIDATION_ERROR"
                /\ usersCollection[e] = NoUser
                /\ usersCollection'[e] = NoUser
                /\ matched[e] = 1 => otpStore'[e] = NoOtp
          /\ (usersCollection[e] = NoUser /\ usersCollection'[e] # NoUser)
             => Truthy(usersCollection'[e].name)
          /\ matched'[e] = 1 => otpStore'[e] = NoOtp
          /\ (VerifyStep(e) /\ matched[e] = 1)
             => (olast'.event = "answered" /\ olast'.code = "OTP_NOT_FOUND")]_vars

\* a matching call without a name for an address without a user has just been answered
\* that a name is required: the record is gone and no user exists
C30_Witness ==
    /\ olast.event = "answered"
    /\ "message" \in DOMAIN olast
    /\ olast.op = "verify-otp"
    /\ olast.code = "VALIDATION_ERROR"
    /\ olast.email \in {Text(e) : e \in Emails}
    /\ matched[olast.email.c] = 1
    /\ usersCollection[olast.email.c] = NoUser
    /\ otpStore[olast.email.c] = NoOtp

====
